---- MODULE Spec2Model ----
(***************************************************************************)
(* A model of the data-quality pipeline: the rule-based checks of          *)
(* src/src/data_preparation.py and the escalation logic of                 *)
(* src/src/analysis.py.  A DataFrame is a sequence of rows (records); a    *)
(* row keeps its index label through sorting and filtering, as in pandas.  *)
(***************************************************************************)
EXTENDS Integers, Sequences, FiniteSets, TLC

VARIABLES
    stage,                      \* which call of the program has completed
    df,                         \* the record set being annotated
    high_volatility_companies,  \* run_llm_analysis: the selected company names
    ci,                         \* run_llm_analysis: position in the outer loop
    ri,                         \* run_llm_analysis: position in the inner loop
    calls,                      \* the judgment calls issued so far, in order
    results,                    \* run_llm_analysis: the results mapping
    TOP_N_COMPANIES,            \* analysis.py: the configured escalation count
    target,                     \* get_peer_context / summarize: the arguments
    peer_context,               \* get_peer_context: the returned mapping
    summary,                    \* summarize_company_data: the returned parts
    arg,                        \* the argument of the function last called
    ret,                        \* what it returned beside the record set
    pc,                         \* main: the statement it has reached
    files                       \* main: the files on disk, by path

vars == <<stage, df, high_volatility_companies, ci, ri, calls, results,
          TOP_N_COMPANIES, target, peer_context, summary, arg, ret, pc, files>>

\* the state only main touches
main_vars == <<pc, files>>

(***************************************************************************)
(* Cell values.  A numeric cell is an exact rational num/den (den > 0); a  *)
(* float computed by the code is modelled by the rational it rounds.  NaN  *)
(* is the absent value, Inf what a division by zero yields, NA_STR the     *)
(* string "N/A" written into a numeric column by fillna.                   *)
(***************************************************************************)
Num(n, d) == [tag |-> "num", num |-> n, den |-> d]
NaN       == [tag |-> "nan", num |-> 0, den |-> 1]
Inf(s)    == [tag |-> "inf", num |-> s, den |-> 1]
NA_STR    == [tag |-> "str", num |-> 0, den |-> 1]

\* the absent value of a text column (company_name, country, ...)
NaNText == "<NaN>"
\* the marker fillna writes
NA_MARKER == "N/A"
\* pd.NA, the value run_llm_analysis fills its new text columns with
PD_NA == "<NA>"

Abs(x) == IF x < 0 THEN -x ELSE x
Min(a, b) == IF a < b THEN a ELSE b

isna(v) == v.tag = "nan"
notna(v) == ~isna(v)

\* |a| > |b| for two numeric-or-infinite cells.
AbsGt(a, b) ==
    CASE a.tag = "inf" -> b.tag # "inf"
      [] b.tag = "inf" -> FALSE
      [] OTHER -> Abs(a.num) * b.den > Abs(b.num) * a.den

AbsEq(a, b) == ~AbsGt(a, b) /\ ~AbsGt(b, a)

(***************************************************************************)
(* Text ordering.  Python compares str by code point: upper case before    *)
(* lower case.  NaN sorts last (na_position='last').                       *)
(***************************************************************************)
NameOrder == <<"A", "B", "C", "D", "a", "b">>
NameRank(n) ==
    IF n = NaNText THEN Len(NameOrder) + 1
    ELSE CHOOSE k \in 1..Len(NameOrder) : NameOrder[k] = n

\* str.upper(); NaN stays NaN
Upper(n) ==
    CASE n = "a" -> "A"
      [] n = "b" -> "B"
      [] OTHER -> n

(***************************************************************************)
(* Sequence helpers standing for pandas indexing.                          *)
(***************************************************************************)
\* df[mask]: the rows satisfying Test, in their order
Filter(s, Test(_)) ==
    LET F[k \in 0..Len(s)] ==
            IF k = 0 THEN <<>>
            ELSE IF Test(s[k]) THEN Append(F[k - 1], s[k]) ELSE F[k - 1]
    IN  F[Len(s)]

\* .tail(n)
Tail_n(s, n) ==
    IF Len(s) <= n THEN s ELSE SubSeq(s, Len(s) - n + 1, Len(s))

\* .head(n)
Head_n(s, n) == IF Len(s) <= n THEN s ELSE SubSeq(s, 1, n)

\* A stable sort: a row's place is the number of rows that must precede it.
StableSort(s, Lt(_, _)) ==
    LET n == Len(s)
        Before(i) == {j \in 1..n : Lt(s[j], s[i]) \/ (~Lt(s[i], s[j]) /\ j < i)}
        At(k) == CHOOSE i \in 1..n : Cardinality(Before(i)) = k - 1
    IN  [k \in 1..n |-> s[At(k)]]

\* Every ordering an unstable sort may produce: sorted, ties in any order.
SeqPermutations(s) ==
    {p \in [1..Len(s) -> 1..Len(s)] : \A i, j \in 1..Len(s) : i # j => p[i] # p[j]}

UnstableSorts(s, Lt(_, _)) ==
    {[k \in 1..Len(s) |-> s[p[k]]] : p \in
        {q \in SeqPermutations(s) :
            \A i, j \in 1..Len(s) : i < j => ~Lt(s[q[j]], s[q[i]])}}

(***************************************************************************)
(* config.py                                                               *)
(***************************************************************************)
\* VOLATILITY_THRESHOLD = 0.5, as the rational ThresholdNum / ThresholdDen
ThresholdNum == 1
ThresholdDen == 2
VOLATILITY_THRESHOLD == Num(ThresholdNum, ThresholdDen)

(***************************************************************************)
(* data_preparation.py: run_rule_based_checks                              *)
(***************************************************************************)
\* Values of the fiscal_period_end column.  A str is itself; the values that
\* are not str are written in angle brackets: the float NaN of an empty cell
\* (NaNText), pd.NaT, None, and the Timestamp of a date cell.
NaT == "<NaT>"
NoneValue == "<None>"
TimestampValues == {"<Timestamp 2023-03-31>", "<Timestamp 2023-12-31>"}
NonStrValues == {NaNText, NaT, NoneValue} \cup TimestampValues

\* isinstance(date_val, str)
IsStr(v) == v \notin NonStrValues

\* hasattr(date_val, 'strftime'): Timestamp and NaT have it, str, float and
\* None do not
HasStrftime(v) == v \in TimestampValues \cup {NaT}

\* The strings the model draws from: tokens in the standard form, strings of
\* the same shape, date strings pd.to_datetime parses, strings it refuses.
CanonicalDates == {"31-Mar", "31-Dec", "01-Mar"}
PatternShaped == {"31-MAR", "99-Xyz"}
ParseableDates == {"2023-03-31", "2023-12-31", "2023-03-01"}
UnparseableDates == {"InvalidDate", ""}

\* re.match(r'^\d{2}-[A-Za-z]{3}$', ...)
MatchesDatePattern(v) == v \in CanonicalDates \cup PatternShaped

\* a calendar date, NaT, or the ValueError pd.to_datetime raises
Date(y, m, d) == [tag |-> "date", year |-> y, month |-> m, day |-> d]
DateNaT == [tag |-> "NaT", year |-> 0, month |-> 0, day |-> 0]
DateError == [tag |-> "ValueError", year |-> 0, month |-> 0, day |-> 0]

\* pd.to_datetime(date_val) on a str; the empty string parses to NaT
to_datetime(v) ==
    CASE v = "2023-03-31" -> Date(2023, 3, 31)
      [] v = "2023-12-31" -> Date(2023, 12, 31)
      [] v = "2023-03-01" -> Date(2023, 3, 1)
      [] v = "" -> DateNaT
      [] OTHER -> DateError

\* the date a Timestamp value holds
TimestampDate(v) ==
    CASE v = "<Timestamp 2023-03-31>" -> Date(2023, 3, 31)
      [] v = "<Timestamp 2023-12-31>" -> Date(2023, 12, 31)
      [] OTHER -> DateNaT

MonthAbbr == <<"Jan", "Feb", "Mar", "Apr", "May", "Jun",
               "Jul", "Aug", "Sep", "Oct", "Nov", "Dec">>

Pad2(n) == IF n < 10 THEN "0" \o ToString(n) ELSE ToString(n)

\* .strftime('%d-%b'); on NaT it raises ValueError, which both callers catch
strftime(d) == Pad2(d.day) \o "-" \o MonthAbbr[d.month]

\* Python's a != b on these values: NaN and NaT differ from themselves
PyNe(a, b) == a \in {NaNText, NaT} \/ a # b

correct_fiscal_period_end(date_val) ==
    LET original_value == date_val
        parsed_date == to_datetime(date_val)
        from_str ==
            IF IsStr(date_val) /\ parsed_date.tag = "date"
            THEN strftime(parsed_date) ELSE original_value
        from_timestamp ==
            IF HasStrftime(date_val) /\ TimestampDate(date_val).tag = "date"
            THEN strftime(TimestampDate(date_val)) ELSE from_str
        corrected_value == from_timestamp
    IN  IF IsStr(date_val) /\ MatchesDatePattern(date_val)
        THEN <<original_value, FALSE>>
        ELSE <<corrected_value, PyNe(corrected_value, original_value)>>

\* pd.notna on a text cell: NaN, None and NaT are absent
notnaText(v) == v \notin {NaNText, NoneValue, NaT}

\* row.get(f): None when the row has no such column
Get(row, f) == IF f \in DOMAIN row THEN row[f] ELSE NoneValue

infer_missing_revenue_unitMutEmptyKept(row) ==
    IF notnaText(Get(row, "revenue_unit")) THEN row.revenue_unit
    ELSE IF Get(row, "country") = "United Kingdom" THEN "GBP"
    ELSE Get(row, "revenue_unit")

infer_missing_revenue_unit(row) ==
    IF notnaText(Get(row, "revenue_unit")) /\ Get(row, "revenue_unit") # ""
    THEN row.revenue_unit
    ELSE IF Get(row, "country") = "United Kingdom" THEN "GBP"
    ELSE Get(row, "revenue_unit")

\* load_raw_data: the legacy column names and the canonical ones
column_mapping ==
    [timevalue |-> "year",
     providerkey |-> "provider_id",
     companynameofficial |-> "company_name",
     fiscalperiodend |-> "fiscal_period_end",
     operationstatustype |-> "operation_status",
     ipostatustype |-> "ipo_status",
     geonameen |-> "country",
     industrycode |-> "industry_code",
     REVENUE |-> "revenue",
     unit_REVENUE |-> "revenue_unit"]

expected_cols == {"timevalue", "providerkey", "companynameofficial"}

\* df.rename(columns=column_mapping) on one row: the columns the mapping
\* names get their new name, the others keep theirs, the cells are untouched
Renamed(f) == IF f \in DOMAIN column_mapping THEN column_mapping[f] ELSE f
rename(row) ==
    [c \in {Renamed(f) : f \in DOMAIN row} |->
        row[CHOOSE f \in DOMAIN row : Renamed(f) = c]]

\* load_raw_data on a sheet that could be read: the renamed frame, and the
\* expected columns the warning of line 18 lists
load_raw_data(sheet) ==
    [df |-> [k \in 1..Len(sheet) |-> rename(sheet[k])],
     missing_cols |-> IF sheet = <<>> THEN {} ELSE expected_cols \ DOMAIN sheet[1]]

\* The columns run_rule_based_checks indexes with df[...], in the order of
\* the statements that do so (lines 83, 98, 112); df[col] on a frame
\* without that column raises KeyError.  The other columns are read with
\* row.get or not at all.
RequiredColumns == <<"fiscal_period_end", "company_name", "year", "revenue">>

\* the column whose KeyError run_rule_based_checks raises on this frame, ""
\* when it raises none (the rows of a frame all have the frame's columns)
KeyError(frame) ==
    LET missing == {k \in 1..Len(RequiredColumns) :
                       frame # <<>> /\ RequiredColumns[k] \notin DOMAIN frame[1]}
    IN  IF missing = {} THEN ""
        ELSE RequiredColumns[CHOOSE k \in missing : \A j \in missing : k <= j]

\* sort_values(by=["company_name", "year"]): a stable lexicographic sort
NameYearLt(r1, r2) ==
    \/ NameRank(r1.company_name) < NameRank(r2.company_name)
    \/ /\ r1.company_name = r2.company_name
       /\ r1.year < r2.year

\* one step of pct_change(fill_method=None): cur / prev - 1
pct_change(prev, cur) ==
    IF isna(prev) \/ isna(cur) THEN NaN
    ELSE IF prev.num = 0
         THEN IF cur.num = 0 THEN NaN ELSE Inf(IF cur.num > 0 THEN 1 ELSE -1)
    ELSE Num(cur.num * prev.den - prev.num * cur.den, prev.num * cur.den)

\* groupby("company_name")["revenue"].pct_change: the previous row of the
\* same group in the sorted frame; rows with a NaN key belong to no group.
GroupPrevMutCalendarYear(sorted, k) ==
    LET before == {j \in 1..(k - 1) : sorted[j].company_name = sorted[k].company_name}
        last == CHOOSE j \in before : \A i \in before : i <= j
    IN  IF sorted[k].company_name = NaNText \/ before = {} THEN 0
        ELSE IF sorted[last].year = sorted[k].year - 1 THEN last
        ELSE 0

GroupPrev(sorted, k) ==
    LET before == {j \in 1..(k - 1) : sorted[j].company_name = sorted[k].company_name}
    IN  IF sorted[k].company_name = NaNText \/ before = {} THEN 0
        ELSE CHOOSE j \in before : \A i \in before : i <= j

YoyChange(sorted, k) ==
    IF GroupPrev(sorted, k) = 0 THEN NaN
    ELSE pct_change(sorted[GroupPrev(sorted, k)].revenue, sorted[k].revenue)

\* abs(df["yoy_change"]) > VOLATILITY_THRESHOLD; a comparison with NaN is False
VolatilityFlagMutInclusive(yoy) ==
    notna(yoy) /\ ~AbsGt(VOLATILITY_THRESHOLD, yoy)

VolatilityFlag(yoy) ==
    notna(yoy) /\ AbsGt(yoy, VOLATILITY_THRESHOLD)

\* fillna("N/A") on one cell
FillNaNumMutZero(v) == IF isna(v) \/ v.num = 0 THEN NA_STR ELSE v

FillNaNum(v) == IF isna(v) THEN NA_STR ELSE v
FillNaText(v) == IF v \in {NaNText, NoneValue, NaT, PD_NA} THEN NA_MARKER ELSE v

\* steps 1-3: the per-row corrections, in the input order; the columns the
\* steps do not name are carried over as they are
CorrectedRow(row) ==
    LET c == correct_fiscal_period_end(row.fiscal_period_end)
    IN  [f \in DOMAIN row \cup {"fiscal_period_end_original", "date_was_corrected",
                                "flag_date_format", "revenue_unit",
                                "company_name_original"} |->
            CASE f = "company_name" -> Upper(row.company_name)
              [] f = "company_name_original" -> row.company_name
              [] f = "revenue_unit" -> infer_missing_revenue_unit(row)
              [] f = "fiscal_period_end" -> c[1]
              [] f = "fiscal_period_end_original" -> row.fiscal_period_end
              [] f = "date_was_corrected" -> c[2]
              [] f = "flag_date_format" -> ~MatchesDatePattern(c[1])
              [] OTHER -> row[f]]

\* steps 7-8 on one row of the sorted frame
CheckedRow(sorted, k) ==
    LET row == sorted[k]
        yoy == YoyChange(sorted, k)
    IN  [f \in DOMAIN row \cup {"yoy_change", "yoy_volatility_flag"} |->
            CASE f = "revenue" -> FillNaNum(row.revenue)
              [] f = "revenue_unit" -> FillNaText(row.revenue_unit)
              [] f = "fiscal_period_end" -> FillNaText(row.fiscal_period_end)
              [] f = "yoy_change" -> yoy
              [] f = "yoy_volatility_flag" -> VolatilityFlag(yoy)
              [] OTHER -> row[f]]

\* (s \o <<>> is s, held as an explicit sequence)
run_rule_based_checks(raw) ==
    LET corrected == [k \in 1..Len(raw) |-> CorrectedRow(raw[k])] \o <<>>
        sorted == StableSort(corrected, NameYearLt) \o <<>>
    IN  [k \in 1..Len(sorted) |-> CheckedRow(sorted, k)]

\* df.duplicated(subset=["company_name", "year"], keep=False) at row k: some
\* other row has the same key (NaN keys count as equal)
duplicatedMutKeepFirst(frame, k) ==
    \E j \in 1..(k - 1) :
        /\ frame[j].company_name = frame[k].company_name
        /\ frame[j].year = frame[k].year

duplicated(frame, k) ==
    \E j \in (1..Len(frame)) \ {k} :
        /\ frame[j].company_name = frame[k].company_name
        /\ frame[j].year = frame[k].year

\* df[mask] for a mask given by position
RowsWhere(frame, mask) ==
    LET F[k \in 0..Len(frame)] ==
            IF k = 0 THEN <<>>
            ELSE IF mask[k] THEN Append(F[k - 1], frame[k]) ELSE F[k - 1]
    IN  F[Len(frame)]

\* Series.sum() of a Boolean column
CountTrue(mask) == Cardinality({k \in DOMAIN mask : mask[k]})

\* the second value run_rule_based_checks returns (lines 110-115, 127, 148-155)
check_results(raw) ==
    LET corrected == [k \in 1..Len(raw) |-> CorrectedRow(raw[k])] \o <<>>
        checked == run_rule_based_checks(raw) \o <<>>
    IN  [missing_summary |->
            [year |-> 0,
             company_name |-> CountTrue([k \in 1..Len(corrected) |->
                                 corrected[k].company_name = NaNText]),
             revenue |-> CountTrue([k \in 1..Len(corrected) |->
                                 isna(corrected[k].revenue)])],
         duplicates |->
            RowsWhere(corrected, [k \in 1..Len(corrected) |-> duplicated(corrected, k)]),
         volatility_flags |->
            RowsWhere(checked, [k \in 1..Len(checked) |-> checked[k].yoy_volatility_flag]),
         date_corrections_count |->
            CountTrue([k \in 1..Len(checked) |-> checked[k].date_was_corrected]),
         remaining_date_issues |->
            CountTrue([k \in 1..Len(checked) |-> checked[k].flag_date_format])]

(***************************************************************************)
(* analysis.py: summarize_company_data                                     *)
(***************************************************************************)
\* int(x): truncation toward zero
IntOf(v) == IF v.num >= 0 THEN v.num \div v.den ELSE -((-v.num) \div v.den)

Pad3(n) ==
    IF n < 10 THEN "00" \o ToString(n)
    ELSE IF n < 100 THEN "0" \o ToString(n)
    ELSE ToString(n)

\* f"{n:,}" for n >= 0
RECURSIVE Thousands(_)
Thousands(n) ==
    IF n < 1000 THEN ToString(n)
    ELSE Thousands(n \div 1000) \o "," \o Pad3(n % 1000)

FormatThousands(n) == IF n < 0 THEN "-" \o Thousands(-n) ELSE Thousands(n)

\* round-half-even of a / b, for a >= 0, b > 0
RoundHalfEven(a, b) ==
    LET q == a \div b
        r == a % b
    IN  IF 2 * r < b THEN q
        ELSE IF 2 * r > b THEN q + 1
        ELSE IF q % 2 = 0 THEN q ELSE q + 1

\* f"{v:+.0%}"
FormatPercent(v) ==
    IF v.tag = "inf" THEN (IF v.num > 0 THEN "+inf%" ELSE "-inf%")
    ELSE LET neg == (v.num < 0) # (v.den < 0)
         IN  (IF neg /\ v.num # 0 THEN "-" ELSE "+")
             \o ToString(RoundHalfEven(100 * Abs(v.num), Abs(v.den))) \o "%"

revenue_str(row) ==
    IF notna(row.revenue) /\ row.revenue # NA_STR
    THEN FormatThousands(IntOf(row.revenue)) ELSE "MISSING"

yoy_str(row) ==
    IF isna(row.yoy_change) THEN "MISSING" ELSE FormatPercent(row.yoy_change)

\* str(fiscal_val) if fiscal_val != "N/A" else "UNKNOWN"; str(nan) is "nan"
year_val(row) ==
    IF row.fiscal_period_end = NA_MARKER THEN "UNKNOWN"
    ELSE IF row.fiscal_period_end = NaNText THEN "nan"
    ELSE row.fiscal_period_end

SummaryPart(row) ==
    year_val(row) \o ": " \o revenue_str(row) \o " (" \o yoy_str(row) \o ")"

\* "; ".join(summary_parts)
JoinParts(parts) ==
    LET J[k \in 0..Len(parts)] ==
            IF k = 0 THEN ""
            ELSE IF k = 1 THEN parts[1]
            ELSE J[k - 1] \o "; " \o parts[k]
    IN  J[Len(parts)]

YearLt(r1, r2) == r1.year < r2.year

\* The outcomes of summarize_company_data: sort_values('year') is not a
\* stable sort, so rows of one year may come in any order.  An outcome keeps
\* the rows it was rendered from beside the text.
summarize_company_data(df_company) ==
    {[rows |-> df_sorted,
      parts |-> [k \in 1..Len(df_sorted) |-> SummaryPart(df_sorted[k])],
      text |-> JoinParts([k \in 1..Len(df_sorted) |-> SummaryPart(df_sorted[k])])]
        : df_sorted \in UnstableSorts(df_company, YearLt)}

(***************************************************************************)
(* analysis.py: get_peer_context                                           *)
(***************************************************************************)
\* == on a text column: NaN equals nothing, itself included
TextEq(a, b) == a # NaNText /\ b # NaNText /\ a = b

PeerMaskMutAnyYear(row, company_row, target_year) ==
    /\ TextEq(row.country, company_row.country)
    /\ TextEq(row.industry_code, company_row.industry_code)
    /\ ~TextEq(row.provider_id, company_row.provider_id)

PeerMask(row, company_row, target_year) ==
    /\ TextEq(row.country, company_row.country)
    /\ TextEq(row.industry_code, company_row.industry_code)
    /\ ~TextEq(row.provider_id, company_row.provider_id)
    /\ row.year = target_year

\* .replace("N/A", np.nan)
ReplaceNA(v) == IF v = NA_STR THEN NaN ELSE v
\* pd.to_numeric(..., errors='coerce')
ToNumeric(v) == IF v.tag = "str" THEN NaN ELSE v

PeerRevenueMutKeepAll(peers_df) ==
    [k \in 1..Len(peers_df) |->
        IF peers_df[k].revenue.tag = "num" THEN peers_df[k].revenue ELSE Num(0, 1)]

\* peers_df['revenue'] after replace, to_numeric and dropna
PeerRevenue(peers_df) ==
    LET coerced == [k \in 1..Len(peers_df) |-> ToNumeric(ReplaceNA(peers_df[k].revenue))]
    IN  Filter(coerced, notna)

RatLt(a, b) == a.num * b.den < b.num * a.den
RatAdd(a, b) == Num(a.num * b.den + b.num * a.den, a.den * b.den)
RatSub(a, b) == Num(a.num * b.den - b.num * a.den, a.den * b.den)
RatMul(a, n, d) == Num(a.num * n, a.den * d)
RatEq(a, b) == a.num * b.den = b.num * a.den

RatSum(s) ==
    LET S[k \in 0..Len(s)] == IF k = 0 THEN Num(0, 1) ELSE RatAdd(S[k - 1], s[k])
    IN  S[Len(s)]

\* Series.quantile(qn / qd), linear interpolation between order statistics
Quantile(s, qn, qd) ==
    LET v == StableSort(s, RatLt)
        pos == (Len(v) - 1) * qn
        lo == pos \div qd
        fr == pos % qd
    IN  IF fr = 0 THEN v[lo + 1]
        ELSE RatAdd(v[lo + 1], RatMul(RatSub(v[lo + 2], v[lo + 1]), fr, qd))

Mean(s) == RatMul(RatSum(s), 1, Len(s))

Unique(s, Key(_)) == {Key(s[k]) : k \in 1..Len(s)}
ProviderId(row) == row.provider_id

get_peer_context(full_df, company_row, target_year) ==
    LET IsPeer(row) == PeerMask(row, company_row, target_year)
        peers_df == Filter(full_df, IsPeer)
        peer_revenue == PeerRevenue(peers_df)
    IN  IF Len(peers_df) = 0
        THEN [peer_count |-> 0,
              message |-> "No peers found for " \o ToString(target_year)]
        ELSE IF Len(peer_revenue) = 0
        THEN [peer_count |-> Len(peers_df),
              message |-> "No peer revenue data for " \o ToString(target_year)]
        ELSE [peer_count |-> Cardinality(Unique(peers_df, ProviderId)),
              median_revenue |-> Quantile(peer_revenue, 1, 2),
              mean_revenue |-> Mean(peer_revenue),
              q25_revenue |-> Quantile(peer_revenue, 1, 4),
              q75_revenue |-> Quantile(peer_revenue, 3, 4),
              analysis_year |-> target_year]

(***************************************************************************)
(* analysis.py: run_llm_analysis                                           *)
(***************************************************************************)
\* config.setdefault('top_n_companies', 3)
DefaultTopN == 3
\* .tail(3): the trailing window
TrailingWindow == 3

\* Results get_llm_judgment may return.  parse_llm_response makes the verdict
\* one of the closed set and the confidence a number within [0, 1]; of the
\* explanation it tests only that the JSON answer has the field (lines
\* 273-276), so the explanation is whatever the answer holds, null included.
LLMResults ==
    {[verdict |-> "plausible", explanation |-> "consistent with peers", confidence |-> Num(85, 100)],
     [verdict |-> "implausible", explanation |-> NoneValue, confidence |-> Num(7, 10)]}

\* df['llm_verdict'] = pd.NA, ... : the three new columns
WithLLMColumns(row) ==
    [f \in DOMAIN row \cup {"llm_verdict", "llm_explanation", "llm_confidence"} |->
        CASE f = "llm_verdict" -> PD_NA
          [] f = "llm_explanation" -> PD_NA
          [] f = "llm_confidence" -> NaN
          [] OTHER -> row[f]]

IsVolatile(row) == row.yoy_volatility_flag = TRUE

\* groupby('company_name'): the keys in ascending order, NaN keys dropped
GroupKeys(rows) ==
    LET names == {rows[k].company_name : k \in 1..Len(rows)} \ {NaNText}
    IN  [k \in 1..Cardinality(names) |->
            CHOOSE n \in names : Cardinality({m \in names : NameRank(m) < NameRank(n)}) = k - 1]

\* x.abs().max() over one group; max skips NaN
GroupMaxAbs(rows, name) ==
    LET vals == {rows[k].yoy_change : k \in {j \in 1..Len(rows) :
                    rows[j].company_name = name /\ notna(rows[j].yoy_change)}}
    IN  IF vals = {} THEN NaN
        ELSE LET m == CHOOSE v \in vals : \A w \in vals : ~AbsGt(w, v)
             IN  IF m.tag = "inf" THEN Inf(1) ELSE Num(Abs(m.num), Abs(m.den))

\* the Series the selection ranks: one entry per group, in key order
VolatilitySeries(d) ==
    LET rows == Filter(d, IsVolatile)
        keys == GroupKeys(rows)
    IN  [k \in 1..Len(keys) |-> [name |-> keys[k], value |-> GroupMaxAbs(rows, keys[k])]]

ValueNotNa(e) == notna(e.value)
ValueIsNa(e) == isna(e.value)
DescLt(e1, e2) == AbsGt(e1.value, e2.value)

NamesOf(series) == [k \in 1..Len(series) |-> series[k].name]

\* Series.nlargest(n, keep='first'): the index lists it may return.  With
\* n >= len it is sort_values(ascending=False).head(n), whose sort is not
\* stable; otherwise the n largest by a stable (mergesort) ranking.
nlargestMutLastOnTies(series, n) ==
    LET dropped == Filter(series, ValueNotNa)
        rev == [k \in 1..Len(dropped) |-> dropped[Len(dropped) + 1 - k]]
    IN  {NamesOf(Head_n(StableSort(rev, DescLt), n))}

nlargestMutOneMore(series, n) ==
    {NamesOf(Head_n(StableSort(Filter(series, ValueNotNa), DescLt), n + 1))}

nlargest(series, n) ==
    LET dropped == Filter(series, ValueNotNa)
        nan_index == Filter(series, ValueIsNa)
    IN  IF n <= 0 THEN {<<>>}
        ELSE IF n >= Len(series)
        THEN {NamesOf(Head_n(s \o nan_index, n)) : s \in UnstableSorts(dropped, DescLt)}
        ELSE {NamesOf(Head_n(Head_n(StableSort(dropped, DescLt), n) \o nan_index, n))}

\* df.loc[index, ...] = ...: every row carrying that label
WriteJudgmentMutWholeCompany(d, company_row, llm_result) ==
    [k \in 1..Len(d) |->
        IF d[k].company_name = company_row.company_name
        THEN [d[k] EXCEPT !.llm_verdict = llm_result.verdict,
                          !.llm_explanation = llm_result.explanation,
                          !.llm_confidence = llm_result.confidence]
        ELSE d[k]]

WriteJudgment(d, company_row, llm_result) ==
    [k \in 1..Len(d) |->
        IF d[k].index = company_row.index
        THEN [d[k] EXCEPT !.llm_verdict = llm_result.verdict,
                          !.llm_explanation = llm_result.explanation,
                          !.llm_confidence = llm_result.confidence]
        ELSE d[k]]

\* df[df['company_name'] == company_name]
CompanyDataMutNoFilter(d, company_name) == d

CompanyData(d, company_name) ==
    LET IsCompany(row) == row.company_name = company_name
    IN  Filter(d, IsCompany)

\* company_data[company_data['year'] <= target_year].tail(3)
YearData(company_data, target_year) ==
    LET UpTo(row) == row.year <= target_year
    IN  Tail_n(Filter(company_data, UpTo), TrailingWindow)

\* f"{company_name}_{target_year}"
YearKey(company_name, target_year) == company_name \o "_" \o ToString(target_year)

IndexOf(rows) == [k \in 1..Len(rows) |-> rows[k].index]

\* lines 68-82: copy, new columns, selection of the top volatile companies;
\* with nothing selected the loop is skipped and the function returns
StartLLMAnalysis ==
    /\ stage = "checked"
    /\ \E selected \in nlargest(VolatilitySeries(df), TOP_N_COMPANIES) :
          /\ high_volatility_companies' = selected
          /\ stage' = IF selected = <<>> THEN "llm_done" ELSE "llm"
    /\ df' = [k \in 1..Len(df) |-> WithLLMColumns(df[k])]
    /\ ci' = 1
    /\ ri' = 1
    /\ results' = <<>>
    /\ UNCHANGED <<calls, TOP_N_COMPANIES, target, peer_context, summary, arg, ret>>

\* lines 85-111: one pass of the inner loop, one judgment call; after the
\* last row of the last company the function returns df, results
JudgeRow ==
    /\ stage = "llm"
    /\ ci <= Len(high_volatility_companies)
    /\ LET company_name == high_volatility_companies[ci]
           company_data == CompanyData(df, company_name)
           company_row == company_data[ri]
           target_year == company_row.year
           year_data == YearData(company_data, target_year)
           context == get_peer_context(df, company_row, target_year)
           last == ri >= Len(company_data)
       IN  \E company_summary \in summarize_company_data(year_data), llm_result \in LLMResults :
              /\ df' = WriteJudgment(df, company_row, llm_result)
              /\ calls' = Append(calls,
                    [index |-> company_row.index,
                     company_name |-> company_name,
                     target_year |-> target_year,
                     year_data |-> IndexOf(company_summary.rows),
                     company_summary |-> company_summary.text,
                     peer_context |-> context,
                     llm_result |-> llm_result])
              /\ results' = [key \in DOMAIN results \cup {YearKey(company_name, target_year)} |->
                                IF key = YearKey(company_name, target_year)
                                THEN llm_result ELSE results[key]]
              /\ ri' = IF last THEN 1 ELSE ri + 1
              /\ ci' = IF last THEN ci + 1 ELSE ci
              /\ stage' = IF last /\ ci = Len(high_volatility_companies)
                          THEN "llm_done" ELSE "llm"
    /\ UNCHANGED <<high_volatility_companies, TOP_N_COMPANIES, target,
                   peer_context, summary, arg, ret>>

NextLLM ==
    \/ StartLLMAnalysis /\ UNCHANGED main_vars
    \/ JudgeRow /\ UNCHANGED main_vars

(***************************************************************************)
(* Inputs.  Every specification starts from record sets drawn from small   *)
(* value sets; the unused state stays at its idle value.                   *)
(***************************************************************************)
MaxRows == 3
MaxLLMRows == 3
MaxWindowRows == 4
MaxPeers == 2
MaxSummaryRows == 2

SeqsUpTo(S, n) == UNION {[1..m -> S] : m \in 0..n}

Idle ==
    /\ high_volatility_companies = <<>>
    /\ ci = 0
    /\ ri = 0
    /\ calls = <<>>
    /\ results = <<>>
    /\ target = <<>>
    /\ peer_context = <<>>
    /\ summary = <<>>
    /\ arg = <<>>
    /\ ret = <<>>
    /\ pc = "-"
    /\ files = {}

\* --- raw rows, as load_raw_data returns them (a RangeIndex from 0) -------
RawNames == {"a", "B"}
RawYears == {2021, 2022}
RawRevenues == {NaN, Num(0, 1), Num(100, 1), Num(150, 1), Num(300, 1)}

RawRow(k, c) ==
    [index |-> k - 1,
     company_name |-> c.company_name,
     provider_id |-> "id_" \o Upper(c.company_name),
     country |-> "United Kingdom",
     industry_code |-> "7010",
     year |-> c.year,
     revenue |-> c.revenue,
     revenue_unit |-> NaNText,
     fiscal_period_end |-> "2023-03-31"]

RawCells == [company_name : RawNames, year : RawYears, revenue : RawRevenues]

Init ==
    /\ stage = "raw"
    /\ \E cells \in SeqsUpTo(RawCells, MaxRows) :
          df = [k \in 1..Len(cells) |-> RawRow(k, cells[k])]
    /\ TOP_N_COMPANIES = DefaultTopN
    /\ Idle

\* main.py line 20: df, check_results = run_rule_based_checks(df)
RunRuleBasedChecks ==
    /\ stage = "raw"
    /\ KeyError(df) = ""
    /\ arg' = df
    /\ df' = run_rule_based_checks(df)
    /\ ret' = check_results(df)
    /\ stage' = "checked"
    /\ UNCHANGED <<high_volatility_companies, ci, ri, calls, results,
                   TOP_N_COMPANIES, target, peer_context, summary>>

Next == RunRuleBasedChecks /\ UNCHANGED main_vars

Spec == Init /\ [][Next]_vars

\* --- the worked example: entity A with 90, 100, 150 over 2021-2023 ---------
\* The three records of A come in any row order, followed by records of an
\* entity B, as in test_volatility_calculation.
MaxExampleRows == 2
ExampleRecords ==
    <<[company_name |-> "A", year |-> 2021, revenue |-> Num(90, 1)],
      [company_name |-> "A", year |-> 2022, revenue |-> Num(100, 1)],
      [company_name |-> "A", year |-> 2023, revenue |-> Num(150, 1)]>>
ExampleOthers == [company_name : {"B"}, year : {2022, 2023},
                  revenue : {Num(50, 1), Num(200, 1)}]

InitExample ==
    /\ stage = "raw"
    /\ \E p \in SeqPermutations(ExampleRecords), others \in SeqsUpTo(ExampleOthers, MaxExampleRows) :
          df = [k \in 1..(3 + Len(others)) |->
                   RawRow(k, IF k <= 3 THEN ExampleRecords[p[k]] ELSE others[k - 3])]
    /\ TOP_N_COMPANIES = DefaultTopN
    /\ Idle

SpecExample == InitExample /\ [][Next]_vars

\* --- raw rows of entities whose history has a gap: no record of 2022 ------
MaxGapRows == 3
GapYears == {2021, 2023}
GapRevenues == {NaN, Num(0, 1), Num(100, 1), Num(150, 1)}

InitGap ==
    /\ stage = "raw"
    /\ \E cells \in SeqsUpTo([company_name : RawNames, year : GapYears,
                              revenue : GapRevenues], MaxGapRows) :
          df = [k \in 1..Len(cells) |-> RawRow(k, cells[k])]
    /\ TOP_N_COMPANIES = DefaultTopN
    /\ Idle

SpecGap == InitGap /\ [][Next]_vars

\* --- a sheet with some of the legacy columns absent -----------------------
\* the sheet with all its columns; index is the row label, not a column
LegacySheet ==
    <<[index |-> 0, timevalue |-> 2022, providerkey |-> "id_A",
       companynameofficial |-> "a", fiscalperiodend |-> "31-Mar",
       operationstatustype |-> "ACTIVE", ipostatustype |-> "PUBLIC",
       geonameen |-> "United Kingdom", industrycode |-> "7010",
       REVENUE |-> Num(150, 1), unit_REVENUE |-> NaNText],
      [index |-> 1, timevalue |-> 2021, providerkey |-> "id_A",
       companynameofficial |-> "a", fiscalperiodend |-> "2023-12-31",
       operationstatustype |-> "ACTIVE", ipostatustype |-> "PUBLIC",
       geonameen |-> "United Kingdom", industrycode |-> "7010",
       REVENUE |-> Num(100, 1), unit_REVENUE |-> "GBP"]>>

LegacyColumns == DOMAIN column_mapping

\* the sheet with only the columns cols
SheetWith(cols) ==
    [k \in 1..Len(LegacySheet) |->
        [f \in cols \cup {"index"} |-> LegacySheet[k][f]]]

InitColumns ==
    /\ stage = "sheet"
    /\ df = <<>>
    /\ TOP_N_COMPANIES = DefaultTopN
    /\ high_volatility_companies = <<>>
    /\ ci = 0
    /\ ri = 0
    /\ calls = <<>>
    /\ results = <<>>
    /\ target = <<>>
    /\ peer_context = <<>>
    /\ summary = <<>>
    /\ \E cols \in SUBSET LegacyColumns : arg = SheetWith(cols)
    /\ ret = <<>>
    /\ pc = "-"
    /\ files = {}

\* main.py line 16: df = load_raw_data(RAW_DATA_PATH), the sheet readable
LoadRawData ==
    /\ stage = "sheet"
    /\ df' = load_raw_data(arg).df
    /\ ret' = [missing_cols |-> load_raw_data(arg).missing_cols]
    /\ stage' = "raw"
    /\ UNCHANGED <<high_volatility_companies, ci, ri, calls, results,
                   TOP_N_COMPANIES, target, peer_context, summary, arg>>

\* main.py line 20, the call raising: run_rule_based_checks has no handler
\* around its column accesses, the KeyError reaches the caller
RunRuleBasedChecksRaises ==
    /\ stage = "raw"
    /\ KeyError(df) # ""
    /\ stage' = "raised"
    /\ ret' = [error |-> "KeyError", column |-> KeyError(df)]
    /\ UNCHANGED <<df, high_volatility_companies, ci, ri, calls, results,
                   TOP_N_COMPANIES, target, peer_context, summary, arg>>

NextColumns ==
    \/ LoadRawData /\ UNCHANGED main_vars
    \/ RunRuleBasedChecks /\ UNCHANGED main_vars
    \/ RunRuleBasedChecksRaises /\ UNCHANGED main_vars

SpecColumns == InitColumns /\ [][NextColumns]_vars

\* --- correct_fiscal_period_end on a column of values ---------------------
MaxDates == 2
DateValues ==
    CanonicalDates \cup PatternShaped \cup ParseableDates \cup UnparseableDates
        \cup NonStrValues

InitDate ==
    /\ stage = "date_input"
    /\ df = <<>>
    /\ TOP_N_COMPANIES = DefaultTopN
    /\ high_volatility_companies = <<>>
    /\ ci = 0
    /\ ri = 0
    /\ calls = <<>>
    /\ results = <<>>
    /\ target = <<>>
    /\ peer_context = <<>>
    /\ summary = <<>>
    /\ arg \in SeqsUpTo(DateValues, MaxDates)
    /\ ret = <<>>
    /\ pc = "-"
    /\ files = {}

\* data_preparation.py line 86: df['fiscal_period_end'].apply(correct_fiscal_period_end)
ApplyDateCorrection ==
    /\ stage = "date_input"
    /\ ret' = [k \in 1..Len(arg) |-> correct_fiscal_period_end(arg[k])]
    /\ stage' = "date_corrected"
    /\ UNCHANGED <<df, high_volatility_companies, ci, ri, calls, results,
                   TOP_N_COMPANIES, target, peer_context, summary, arg, pc, files>>

\* the same call on the corrected values (line 87: x[0] of each result)
ReapplyDateCorrection ==
    /\ stage = "date_corrected"
    /\ arg' = [k \in 1..Len(ret) |-> ret[k][1]]
    /\ ret' = [k \in 1..Len(ret) |-> correct_fiscal_period_end(ret[k][1])]
    /\ stage' = "date_recorrected"
    /\ UNCHANGED <<df, high_volatility_companies, ci, ri, calls, results,
                   TOP_N_COMPANIES, target, peer_context, summary, pc, files>>

NextDate == ApplyDateCorrection \/ ReapplyDateCorrection

SpecDate == InitDate /\ [][NextDate]_vars

\* --- infer_missing_revenue_unit on the rows of a frame --------------------
MaxUnitRows == 2
UnitValues == {NaNText, NoneValue, "", "USD", "GBP"}
UnitCountries == {"United Kingdom", "Germany", "united kingdom", NaNText}

InitUnit ==
    /\ stage = "unit_input"
    /\ df = <<>>
    /\ TOP_N_COMPANIES = DefaultTopN
    /\ high_volatility_companies = <<>>
    /\ ci = 0
    /\ ri = 0
    /\ calls = <<>>
    /\ results = <<>>
    /\ target = <<>>
    /\ peer_context = <<>>
    /\ summary = <<>>
    /\ arg \in SeqsUpTo([revenue_unit : UnitValues, country : UnitCountries], MaxUnitRows)
    /\ ret = <<>>
    /\ pc = "-"
    /\ files = {}

\* data_preparation.py line 95: df.apply(infer_missing_revenue_unit, axis=1)
InferMissingRevenueUnit ==
    /\ stage = "unit_input"
    /\ ret' = [k \in 1..Len(arg) |-> infer_missing_revenue_unit(arg[k])]
    /\ stage' = "unit_inferred"
    /\ UNCHANGED <<df, high_volatility_companies, ci, ri, calls, results,
                   TOP_N_COMPANIES, target, peer_context, summary, arg, pc, files>>

SpecUnit == InitUnit /\ [][InferMissingRevenueUnit]_vars

\* --- raw rows whose keys repeat, also under another spelling --------------
DupNames == {"a", "A", "B", NaNText}
DupYears == {2021, 2022}

InitDup ==
    /\ stage = "raw"
    /\ \E cells \in SeqsUpTo([company_name : DupNames, year : DupYears], MaxRows) :
          df = [k \in 1..Len(cells) |->
                   RawRow(k, [company_name |-> cells[k].company_name,
                              year |-> cells[k].year,
                              revenue |-> Num(100, 1)])]
    /\ TOP_N_COMPANIES = DefaultTopN
    /\ Idle

SpecDup == InitDup /\ [][Next]_vars

\* --- raw rows with absent and present revenue, unit and period end -------
MaxNARows == 2
NARevenues == {NaN, Num(0, 1), Num(100, 1)}
NAUnits == {NaNText, "", "USD"}
NADates == {NaNText, "31-Mar", "InvalidDate"}

InitNA ==
    /\ stage = "raw"
    /\ \E cells \in SeqsUpTo([revenue : NARevenues, revenue_unit : NAUnits,
                               fiscal_period_end : NADates], MaxNARows) :
          df = [k \in 1..Len(cells) |->
                   [RawRow(k, [company_name |-> "a", year |-> 2020 + k,
                               revenue |-> cells[k].revenue])
                       EXCEPT !.country = "Germany",
                              !.revenue_unit = cells[k].revenue_unit,
                              !.fiscal_period_end = cells[k].fiscal_period_end]]
    /\ TOP_N_COMPANIES = DefaultTopN
    /\ Idle

SpecNA == InitNA /\ [][Next]_vars

\* --- checked rows handed to run_llm_analysis, in any row order -----------
\* yoy_volatility_flag is what run_rule_based_checks derives from yoy_change.
LLMRow(k, c) ==
    [index |-> k - 1,
     company_name |-> c.company_name,
     provider_id |-> "id_" \o c.company_name,
     country |-> "United Kingdom",
     industry_code |-> "7010",
     year |-> c.year,
     revenue |-> Num(1000, 1),
     fiscal_period_end |-> "31-Dec",
     yoy_change |-> c.yoy_change,
     yoy_volatility_flag |-> VolatilityFlag(c.yoy_change)]

LLMNames == {"A", "B", "C"}
LLMChanges == {Num(1, 5), Num(3, 5), Num(-1, 1)}
\* Several entities, a configured escalation count from 1 to the default;
\* rows come newest first, as in the fixture of tests/conftest.py.
InitLLM ==
    /\ stage = "checked"
    /\ \E cells \in SeqsUpTo([company_name : LLMNames, yoy_change : LLMChanges], MaxLLMRows) :
          df = [k \in 1..Len(cells) |->
                   LLMRow(k, [company_name |-> cells[k].company_name,
                              year |-> 2024 - k,
                              yoy_change |-> cells[k].yoy_change])]
    /\ TOP_N_COMPANIES \in 1..DefaultTopN
    /\ Idle

SpecLLM == InitLLM /\ [][NextLLM]_vars

\* One entity with a longer history, every record volatile, its years in
\* any row order and with repeats; the default escalation count.
WindowYears == {2020, 2021, 2022, 2023}

InitWindow ==
    /\ stage = "checked"
    /\ \E years \in SeqsUpTo(WindowYears, MaxWindowRows) :
          df = [k \in 1..Len(years) |->
                   LLMRow(k, [company_name |-> "A", year |-> years[k],
                              yoy_change |-> Num(3, 5)])]
    /\ TOP_N_COMPANIES = DefaultTopN
    /\ Idle

SpecWindow == InitWindow /\ [][NextLLM]_vars

\* --- get_peer_context on its own -----------------------------------------
PeerProviders == {"1", "2"}
PeerCohorts == {<<"US", "TECH">>, <<"US", "FIN">>, <<"DE", "TECH">>}
PeerYears == {2022, 2023}
PeerRevenues == {NaN, NA_STR, Num(1000, 1), Num(1200, 1)}

PeerRow(k, c) ==
    [index |-> k - 1,
     company_name |-> "CO" \o c.provider_id,
     provider_id |-> c.provider_id,
     country |-> c.cohort[1],
     industry_code |-> c.cohort[2],
     year |-> c.year,
     revenue |-> c.revenue]

PeerCells == [provider_id : PeerProviders, cohort : PeerCohorts,
              year : PeerYears, revenue : PeerRevenues]

\* the row every frame starts with: a record of the entity asked about
PeerTargetCell == [provider_id |-> "1", cohort |-> <<"US", "TECH">>,
                   year |-> 2023, revenue |-> Num(5000, 1)]

InitPeer ==
    /\ stage = "peer_input"
    /\ \E cells \in SeqsUpTo(PeerCells, MaxPeers) :
          df = [k \in 1..(Len(cells) + 1) |->
                    PeerRow(k, IF k = 1 THEN PeerTargetCell ELSE cells[k - 1])]
    /\ TOP_N_COMPANIES = DefaultTopN
    /\ Idle

GetPeerContext ==
    /\ stage = "peer_input"
    /\ \E i \in 1..Len(df), target_year \in PeerYears :
          /\ target' = [row |-> i, year |-> target_year]
          /\ peer_context' = get_peer_context(df, df[i], target_year)
    /\ stage' = "peer_context"
    /\ UNCHANGED <<df, high_volatility_companies, ci, ri, calls, results,
                   TOP_N_COMPANIES, summary, arg, ret, pc, files>>

SpecPeer == InitPeer /\ [][GetPeerContext]_vars

\* --- summarize_company_data on its own -----------------------------------
SummaryYears == {2021, 2023}
SummaryRevenues == {NaN, NA_STR, Num(1000000, 1), Num(2001, 2)}
SummaryChanges == {NaN, Num(1, 10), Num(-1, 2), Inf(1)}
SummaryDates == {"31-Dec", NA_MARKER}

SummaryRow(k, c) ==
    [index |-> k - 1,
     company_name |-> "A",
     year |-> c.year,
     revenue |-> c.revenue,
     fiscal_period_end |-> c.fiscal_period_end,
     yoy_change |-> c.yoy_change]

SummaryCells == [year : SummaryYears, revenue : SummaryRevenues,
                 yoy_change : SummaryChanges, fiscal_period_end : SummaryDates]

InitSummary ==
    /\ stage = "summary_input"
    /\ \E cells \in SeqsUpTo(SummaryCells, MaxSummaryRows) :
          df = [k \in 1..Len(cells) |-> SummaryRow(k, cells[k])]
    /\ TOP_N_COMPANIES = DefaultTopN
    /\ Idle

SummarizeCompanyData ==
    /\ stage = "summary_input"
    /\ summary' \in summarize_company_data(df)
    /\ stage' = "summary"
    /\ UNCHANGED <<df, high_volatility_companies, ci, ri, calls, results,
                   TOP_N_COMPANIES, target, peer_context, arg, ret, pc, files>>

SpecSummary == InitSummary /\ [][SummarizeCompanyData]_vars

(***************************************************************************)
(* reporting.py and main.py.  A file is a path with its content; the paths *)
(* are named after the constants of config.py that hold them.              *)
(***************************************************************************)
File(path, content) == [path |-> path, workbook |-> TRUE, content |-> content]
\* a file at the input path that pd.read_excel cannot read
NotAWorkbook(path) == [path |-> path, workbook |-> FALSE, content |-> <<>>]
Content(path) == (CHOOSE f \in files : f.path = path).content
Exists(path) == \E f \in files : f.path = path
\* open(path, 'w') / to_csv / to_excel: the file is created or replaced
WriteFile(path, content) ==
    {f \in files : f.path # path} \cup {File(path, content)}

\* Series.nunique(): the distinct values, NaN left out
nunique(rows) == Cardinality({rows[k].company_name : k \in 1..Len(rows)} \ {NaNText})

\* generate_quality_report: the figures it writes
generate_quality_report(results_of_checks) ==
    [missing |-> results_of_checks.missing_summary,
     dup_count |-> Len(results_of_checks.duplicates),
     vol_count |-> nunique(results_of_checks.volatility_flags),
     date_corrections_count |-> results_of_checks.date_corrections_count,
     remaining_date_issues |-> results_of_checks.remaining_date_issues]

\* generate_llm_report: the figures it writes
generate_llm_report(llm_results, values_standardized) ==
    [values_standardized |-> values_standardized, results |-> llm_results]

\* main lines 38-48: fillna("N/A") on the seven presentation columns
StandardizedRow(row) ==
    [row EXCEPT !.revenue = FillNaNum(@),
                !.revenue_unit = FillNaText(@),
                !.fiscal_period_end = FillNaText(@),
                !.yoy_change = FillNaNum(@),
                !.llm_verdict = FillNaText(@),
                !.llm_explanation = FillNaText(@),
                !.llm_confidence = FillNaNum(@)]

\* main line 44: the absent cells of those columns
MissingCells(row) ==
    Cardinality({f \in {"revenue", "yoy_change", "llm_confidence"} : isna(row[f])})
    + Cardinality({f \in {"revenue_unit", "fiscal_period_end", "llm_verdict",
                          "llm_explanation"} : FillNaText(row[f]) # row[f]})

RECURSIVE SumSeq(_)
SumSeq(s) == IF s = <<>> THEN 0 ELSE s[1] + SumSeq(Tail(s))

\* save_to_excel lines 68-72
llm_processed_mask(row) ==
    \/ row.llm_verdict # NA_MARKER
    \/ row.llm_explanation # NA_MARKER
    \/ row.llm_confidence # NA_STR

\* sort_values(by=['company_name', 'year'], ascending=[True, False])
NameYearDescLt(r1, r2) ==
    \/ NameRank(r1.company_name) < NameRank(r2.company_name)
    \/ /\ r1.company_name = r2.company_name
       /\ r1.year > r2.year

\* save_to_excel lines 90-111: the rows written, judged records first
save_to_excelMutDropUnjudged(d) ==
    LET llm_df == RowsWhere(d, [k \in 1..Len(d) |-> llm_processed_mask(d[k])])
        sorted_df == StableSort(llm_df, NameYearDescLt)
    IN  [k \in 1..Len(sorted_df) |-> [sorted_df[k] EXCEPT !.index = k - 1]]

save_to_excelMutYearAscending(d) ==
    LET llm_df == RowsWhere(d, [k \in 1..Len(d) |-> llm_processed_mask(d[k])])
        non_llm_df == RowsWhere(d, [k \in 1..Len(d) |-> ~llm_processed_mask(d[k])])
        sorted_df == StableSort(llm_df, NameYearLt)
                        \o StableSort(non_llm_df, NameYearLt)
    IN  [k \in 1..Len(sorted_df) |-> [sorted_df[k] EXCEPT !.index = k - 1]]

save_to_excel(d) ==
    LET llm_df == RowsWhere(d, [k \in 1..Len(d) |-> llm_processed_mask(d[k])])
        non_llm_df == RowsWhere(d, [k \in 1..Len(d) |-> ~llm_processed_mask(d[k])])
        sorted_df == StableSort(llm_df, NameYearDescLt)
                        \o StableSort(non_llm_df, NameYearDescLt)
    IN  [k \in 1..Len(sorted_df) |-> [sorted_df[k] EXCEPT !.index = k - 1]]

\* load_raw_data: the error pd.read_excel raises on this path, "" for none
ReadError(path) ==
    IF ~Exists(path) THEN "FileNotFoundError"
    ELSE IF \E f \in files : f.path = path /\ ~f.workbook THEN "BadZipFile"
    ELSE ""

\* line 16, the load failing: load_raw_data logs and re-raises, main has no
\* handler, the error reaches the caller
MainLoadRaisesMutCarriesOn ==
    /\ pc = "load"
    /\ ReadError("RAW_DATA_PATH") # ""
    /\ pc' = "checks"
    /\ stage' = "raw"
    /\ UNCHANGED <<df, high_volatility_companies, ci, ri, calls, results,
                   TOP_N_COMPANIES, target, peer_context, summary, arg, ret, files>>

MainLoadRaises ==
    /\ pc = "load"
    /\ ReadError("RAW_DATA_PATH") # ""
    /\ pc' = "raised"
    /\ ret' = [error |-> ReadError("RAW_DATA_PATH")]
    /\ UNCHANGED <<stage, df, high_volatility_companies, ci, ri, calls, results,
                   TOP_N_COMPANIES, target, peer_context, summary, arg, files>>

\* line 16: df = load_raw_data(RAW_DATA_PATH)
MainLoadRawData ==
    /\ pc = "load"
    /\ ReadError("RAW_DATA_PATH") = ""
    /\ df' = Content("RAW_DATA_PATH")
    /\ stage' = "raw"
    /\ pc' = "checks"
    /\ UNCHANGED <<high_volatility_companies, ci, ri, calls, results,
                   TOP_N_COMPANIES, target, peer_context, summary, arg, ret, files>>

\* line 20: df, check_results = run_rule_based_checks(df)
MainRunRuleBasedChecks ==
    /\ pc = "checks"
    /\ RunRuleBasedChecks
    /\ pc' = "snapshot"
    /\ UNCHANGED files

MainSaveSnapshotMutNotWritten ==
    /\ pc = "snapshot"
    /\ pc' = "quality_report"
    /\ UNCHANGED <<stage, df, high_volatility_companies, ci, ri, calls, results,
                   TOP_N_COMPANIES, target, peer_context, summary, arg, ret, files>>

\* line 23: df.to_csv(SNAPSHOT_PATH, index=False)
MainSaveSnapshot ==
    /\ pc = "snapshot"
    /\ files' = WriteFile("SNAPSHOT_PATH", df)
    /\ pc' = "quality_report"
    /\ UNCHANGED <<stage, df, high_volatility_companies, ci, ri, calls, results,
                   TOP_N_COMPANIES, target, peer_context, summary, arg, ret>>

\* line 28: generate_quality_report(check_results, RULE_BASED_REPORT_PATH)
MainQualityReport ==
    /\ pc = "quality_report"
    /\ files' = WriteFile("RULE_BASED_REPORT_PATH", <<generate_quality_report(ret)>>)
    /\ pc' = "llm_analysis"
    /\ UNCHANGED <<stage, df, high_volatility_companies, ci, ri, calls, results,
                   TOP_N_COMPANIES, target, peer_context, summary, arg, ret>>

\* line 32: df, llm_results = run_llm_analysis(df), a judgment call at a time
MainStartLLMAnalysis ==
    /\ pc = "llm_analysis"
    /\ StartLLMAnalysis
    /\ UNCHANGED main_vars

MainJudgeRow ==
    /\ pc = "llm_analysis"
    /\ JudgeRow
    /\ UNCHANGED main_vars

\* lines 38-53: the final standardization of absent values
MainStandardize ==
    /\ pc = "llm_analysis"
    /\ stage = "llm_done"
    /\ df' = [k \in 1..Len(df) |-> StandardizedRow(df[k])]
    /\ summary' = [values_standardized |->
                      SumSeq([k \in 1..Len(df) |-> MissingCells(df[k])])]
    /\ pc' = "llm_report"
    /\ UNCHANGED <<stage, high_volatility_companies, ci, ri, calls, results,
                   TOP_N_COMPANIES, target, peer_context, arg, ret, files>>

\* line 57: generate_llm_report(llm_results, LLM_REPORT_PATH, values_standardized)
MainLLMReport ==
    /\ pc = "llm_report"
    /\ files' = WriteFile("LLM_REPORT_PATH",
                    <<generate_llm_report(results, summary.values_standardized)>>)
    /\ pc' = "save"
    /\ UNCHANGED <<stage, df, high_volatility_companies, ci, ri, calls, results,
                   TOP_N_COMPANIES, target, peer_context, summary, arg, ret>>

\* line 61: output_path = save_to_excel(df, FINAL_OUTPUT_PATH); line 64: return
MainSaveToExcel ==
    /\ pc = "save"
    /\ files' = WriteFile("FINAL_OUTPUT_PATH", save_to_excel(df))
    /\ pc' = "done"
    /\ UNCHANGED <<stage, df, high_volatility_companies, ci, ri, calls, results,
                   TOP_N_COMPANIES, target, peer_context, summary, arg, ret>>

NextMain ==
    \/ MainLoadRaises
    \/ MainLoadRawData
    \/ MainRunRuleBasedChecks
    \/ MainSaveSnapshot
    \/ MainQualityReport
    \/ MainStartLLMAnalysis
    \/ MainJudgeRow
    \/ MainStandardize
    \/ MainLLMReport
    \/ MainSaveToExcel

\* The input file: absent, not a workbook, or a sheet of raw rows.  The
\* sheet starts with the only record of an entity of its own, which has no
\* year-over-year change and is never escalated.
MaxMainRows == 2
MainFirstCell == [company_name |-> "C", year |-> 2021, revenue |-> Num(100, 1)]
MainNames == {"a", "B"}
MainYears == {2021, 2022}
MainRevenues == {Num(100, 1), Num(300, 1)}

InitMain ==
    /\ stage = "start"
    /\ df = <<>>
    /\ TOP_N_COMPANIES = DefaultTopN
    /\ high_volatility_companies = <<>>
    /\ ci = 0
    /\ ri = 0
    /\ calls = <<>>
    /\ results = <<>>
    /\ target = <<>>
    /\ peer_context = <<>>
    /\ summary = <<>>
    /\ arg = <<>>
    /\ ret = <<>>
    /\ pc = "load"
    /\ \/ files = {}
       \/ files = {NotAWorkbook("RAW_DATA_PATH")}
       \/ \E cells \in SeqsUpTo([company_name : MainNames, year : MainYears,
                                  revenue : MainRevenues], MaxMainRows) :
             files = {File("RAW_DATA_PATH",
                           [k \in 1..(Len(cells) + 1) |->
                               RawRow(k, IF k = 1 THEN MainFirstCell ELSE cells[k - 1])])}

SpecMain == InitMain /\ [][NextMain]_vars

\* --- save_to_excel on its own: standardized record sets in any row order --
\* A record is unjudged (the three judgment columns hold the marker), judged,
\* or judged with an explanation that was absent and became the marker.
MaxSaveRows == 3
SaveNames == {"A", "B"}
SaveYears == {2021, 2022}
SaveJudgments == {"none", "full", "no explanation"}

SaveRow(k, c) ==
    [index |-> k - 1,
     company_name |-> c.company_name,
     year |-> c.year,
     llm_verdict |-> IF c.judgment = "none" THEN NA_MARKER ELSE "plausible",
     llm_explanation |-> IF c.judgment = "full" THEN "Test explanation" ELSE NA_MARKER,
     llm_confidence |-> IF c.judgment = "none" THEN NA_STR ELSE Num(8, 10)]

InitSave ==
    /\ stage = "llm_done"
    /\ \E cells \in SeqsUpTo([company_name : SaveNames, year : SaveYears,
                              judgment : SaveJudgments], MaxSaveRows) :
          df = [k \in 1..Len(cells) |-> SaveRow(k, cells[k])]
    /\ TOP_N_COMPANIES = DefaultTopN
    /\ high_volatility_companies = <<>>
    /\ ci = 0
    /\ ri = 0
    /\ calls = <<>>
    /\ results = <<>>
    /\ target = <<>>
    /\ peer_context = <<>>
    /\ summary = <<>>
    /\ arg = <<>>
    /\ ret = <<>>
    /\ pc = "save"
    /\ files = {}

SpecSave == InitSave /\ [][MainSaveToExcel]_vars

(***************************************************************************)
(* llm_utils.py.  A response text is modelled by what the code reads off    *)
(* it: the text itself, what json.loads makes of its outermost braces, and  *)
(* the keywords its lower-cased form contains.                              *)
(***************************************************************************)
\* what json.loads yields: an object with some of the three fields, another
\* JSON value, or a JSONDecodeError
JObject(fields, verdict, explanation, confidence) ==
    [tag |-> "object", fields |-> fields, verdict |-> verdict,
     explanation |-> explanation, confidence |-> confidence]
JOther == [tag |-> "other", fields |-> {}, verdict |-> "", explanation |-> "",
           confidence |-> NaN]
JError == [tag |-> "JSONDecodeError", fields |-> {}, verdict |-> "",
           explanation |-> "", confidence |-> NaN]

\* confidence values that are not finite numbers: a non-numeric string, null,
\* an integer too large for a float
ConfText == [tag |-> "text", num |-> 0, den |-> 1]
ConfNull == [tag |-> "null", num |-> 0, den |-> 1]
ConfHuge == [tag |-> "huge", num |-> 1, den |-> 1]

AllFields == {"verdict", "explanation", "confidence"}

Text(text, json, keywords) ==
    [tag |-> "text", text |-> text, json |-> json, keywords |-> keywords]
\* None, what a provider returns when it has no response
None == [tag |-> "none", text |-> "", json |-> JError, keywords |-> {}]

LongText == "The reported figures cannot be assessed with the information given, because the peer group is small and the fiscal periods differ between the companies; a manual review is suggested before any decision."
\* response_text[:150]
First150(text) ==
    IF text = LongText
    THEN "The reported figures cannot be assessed with the information given, because the peer group is small and the fiscal periods differ between the companie"
    ELSE text

RECURSIVE Zeros(_)
Zeros(n) ==
    IF n = 0 THEN ""
    ELSE IF n % 2 = 1 THEN "0" \o Zeros(n - 1)
    ELSE LET half == Zeros(n \div 2) IN half \o half

\* The response texts the model draws from.
JsonResponses ==
    {Text("{\"verdict\": \"implausible\", \"explanation\": \"Jump of 300%.\", \"confidence\": 0.9}",
          JObject(AllFields, "implausible", "Jump of 300%.", Num(9, 10)),
          {"implausible", "plausible"}),
     Text("{\"verdict\": \"maybe\", \"explanation\": \"Hard to say.\", \"confidence\": 1.5}",
          JObject(AllFields, "maybe", "Hard to say.", Num(3, 2)), {}),
     Text("{\"verdict\": \"plausible\", \"explanation\": \"In line.\", \"confidence\": -0.2}",
          JObject(AllFields, "plausible", "In line.", Num(-1, 5)), {"plausible"}),
     Text("{\"verdict\": \"plausible\", \"explanation\": \"In line.\", \"confidence\": 0.876}",
          JObject(AllFields, "plausible", "In line.", Num(876, 1000)), {"plausible"}),
     Text("{\"verdict\": \"Plausible\", \"explanation\": \"In line.\", \"confidence\": \"high\"}",
          JObject(AllFields, "Plausible", "In line.", ConfText), {"plausible"}),
     Text("{\"verdict\": \"uncertain\", \"explanation\": \"Few peers.\", \"confidence\": NaN}",
          JObject(AllFields, "uncertain", "Few peers.", NaN), {}),
     Text("{\"verdict\": \"plausible\", \"explanation\": \"In line.\", \"confidence\": 1e400}",
          JObject(AllFields, "plausible", "In line.", Inf(1)), {"plausible"}),
     Text("{\"verdict\": \"plausible\", \"explanation\": \"In line.\", \"confidence\": 1"
              \o Zeros(400) \o "}",
          JObject(AllFields, "plausible", "In line.", ConfHuge), {"plausible"}),
     Text("{\"verdict\": \"plausible\", \"explanation\": \"In line.\", \"confidence\": null}",
          JObject(AllFields, "plausible", "In line.", ConfNull), {"plausible"}),
     Text("{\"verdict\": \"implausible\", \"explanation\": null, \"confidence\": 0.7}",
          JObject(AllFields, "implausible", NoneValue, Num(7, 10)),
          {"implausible", "plausible"}),
     Text("{\"verdict\": \"implausible\"}",
          JObject({"verdict"}, "implausible", "", NaN), {"implausible", "plausible"}),
     Text("42", JOther, {})}

PlainResponses ==
    {Text("This is not JSON but contains plausible", JError, {"plausible"}),
     Text("The trend looks REASONABLE.", JError, {"reasonable"}),
     Text("Suspicious, although consistent with peers", JError, {"suspicious", "consistent"}),
     Text("This figure is invalid", JError, {"invalid", "valid"}),
     Text("The numbers are incorrect", JError, {"correct"}),
     Text("No opinion", JError, {}),
     Text(LongText, JError, {}),
     Text("", JError, {})}

Responses == JsonResponses \cup PlainResponses

\* `if response:` -- None and the empty string are falsy
TruthyMutEmptyText(response) == response.tag = "text"

Truthy(response) == response.tag = "text" /\ response.text # ""

\* float(result["confidence"]): the float, or the exception raised
FloatOf(c) ==
    CASE c.tag \in {"num", "nan", "inf"} -> [raised |-> "", value |-> c]
      [] c.tag = "text" -> [raised |-> "ValueError", value |-> c]
      [] c.tag = "null" -> [raised |-> "TypeError", value |-> c]
      [] OTHER -> [raised |-> "OverflowError", value |-> c]

\* max(0.0, min(1.0, confidence)): a comparison with NaN is False, so min
\* and max keep their first argument
ClampMutOff(c) == c

Clamp(c) ==
    CASE c.tag = "nan" -> Num(1, 1)
      [] c.tag = "inf" -> IF c.num > 0 THEN Num(1, 1) ELSE Num(0, 1)
      [] RatLt(Num(1, 1), c) -> Num(1, 1)
      [] RatLt(c, Num(0, 1)) -> Num(0, 1)
      [] OTHER -> c

\* round(x, 2) for 0 <= x <= 1
Round2(c) == Num(RoundHalfEven(c.num * 100, c.den), 100)

Verdicts == {"plausible", "implausible", "uncertain"}
ImplausibleWords == {"implausible", "suspicious", "anomal", "error", "invalid"}
PlausibleWords == {"plausible", "reasonable", "consistent", "valid", "correct"}

Result(verdict, explanation, confidence) ==
    [verdict |-> verdict, explanation |-> explanation, confidence |-> confidence]

\* _parse_text_fallback
parse_text_fallbackMutPlausibleFirst(response) ==
    LET explanation == "AI response analysis: " \o First150(response.text) \o "..."
    IN  IF response.keywords \cap PlausibleWords # {}
        THEN Result("plausible", explanation, Num(7, 10))
        ELSE IF response.keywords \cap ImplausibleWords # {}
        THEN Result("implausible", explanation, Num(7, 10))
        ELSE Result("uncertain", explanation, Num(5, 10))

parse_text_fallback(response) ==
    LET explanation == "AI response analysis: " \o First150(response.text) \o "..."
    IN  IF response.keywords \cap ImplausibleWords # {}
        THEN Result("implausible", explanation, Num(7, 10))
        ELSE IF response.keywords \cap PlausibleWords # {}
        THEN Result("plausible", explanation, Num(7, 10))
        ELSE Result("uncertain", explanation, Num(5, 10))

\* parse_llm_response; every exception of the JSON branch ends in the fallback
parse_llm_response(response) ==
    IF ~Truthy(response)
    THEN Result("uncertain", "No response received from AI analysis", Num(5, 10))
    ELSE LET result == response.json
             verdict == IF result.verdict \in Verdicts THEN result.verdict
                        ELSE "uncertain"
             confidence == FloatOf(result.confidence)
         IN  CASE result.tag # "object" -> parse_text_fallback(response)
               [] ~(AllFields \subseteq result.fields) -> parse_text_fallback(response)
               [] confidence.raised = "" ->
                     Result(verdict, result.explanation, Round2(Clamp(confidence.value)))
               [] confidence.raised \in {"ValueError", "TypeError"} ->
                     Result(verdict, result.explanation, Num(5, 10))
               [] OTHER -> parse_text_fallback(response)

\* call_groq_api / call_gemini_api: the text of the provider, None when it
\* has none or when anything fails inside the call
call_api(outcome) ==
    IF outcome.kind = "text" THEN outcome.response ELSE None

\* _get_mock_response: the JSON text it builds from the summary, the peer
\* context and the year
MockExplanations(m, current_year_data) ==
    CASE m.peer_count = 0 ->
            <<"Insufficient peer data for reliable comparison. No comparable companies in same industry/country.">>
      [] m.has_high_volatility ->
            <<"Extreme volatility (" \o current_year_data \o ") significantly deviates from "
                  \o ToString(m.peer_count) \o " peers (median: $" \o FormatThousands(m.median_revenue) \o ").",
              "Revenue pattern shows abnormal fluctuations compared to industry benchmarks of $"
                  \o FormatThousands(m.median_revenue) \o ".",
              "Unusual YoY changes detected, inconsistent with "
                  \o ToString(m.peer_count) \o " comparable companies.">>
      [] m.has_negative_growth ->
            <<"Revenue decline " \o current_year_data \o " contrasts with positive peer median of $"
                  \o FormatThousands(m.median_revenue) \o ".",
              "Negative growth pattern differs from industry trends among "
                  \o ToString(m.peer_count) \o " peers.",
              "Downturn detected while peers maintained median revenue of $"
                  \o FormatThousands(m.median_revenue) \o ".">>
      [] OTHER ->
            <<"Revenue trend " \o current_year_data \o " aligns with peer median of $"
                  \o FormatThousands(m.median_revenue) \o ".",
              "Pattern consistent with " \o ToString(m.peer_count)
                  \o " industry peers (median: $" \o FormatThousands(m.median_revenue) \o ").",
              "Growth trajectory matches sector benchmarks of $"
                  \o FormatThousands(m.median_revenue) \o ".">>

get_mock_response(m) ==
    LET year_modifier == m.year % 10
        explanations == MockExplanations(m, m.current_year_data)
        explanation == ToString(m.year) \o ": "
                          \o explanations[(year_modifier % Len(explanations)) + 1]
        \* the peer context of get_peer_context has no 'yoy_change', so
        \* yoy_abs is 0 and a negative growth is judged "uncertain"
        verdict == CASE m.peer_count = 0 -> "uncertain"
                     [] m.has_high_volatility -> "implausible"
                     [] m.has_negative_growth -> "uncertain"
                     [] OTHER -> "plausible"
        base == CASE m.peer_count = 0 -> 40
                  [] m.has_high_volatility -> 85
                  [] m.has_negative_growth -> 70
                  [] OTHER -> 75
        hundredths == IF m.peer_count = 0 THEN base
                      ELSE IF base + year_modifier > 95 THEN 95
                      ELSE IF base + year_modifier < 40 THEN 40
                      ELSE base + year_modifier
    IN  Text("{\"verdict\": \"" \o verdict \o "\", \"explanation\": \"" \o explanation
                 \o "\", \"confidence\": 0."
                 \o ToString(IF hundredths % 10 = 0 THEN hundredths \div 10 ELSE hundredths)
                 \o "}",
             JObject(AllFields, verdict, explanation, Num(hundredths, 100)),
             {})

\* get_llm_judgment, a statement at a time.  arg holds what each provider
\* will answer and what the mock is given; calls lists the providers called;
\* ret is what the last call returned.
\* line 28: response = call_groq_api(prompt)
CallGroqApi ==
    /\ stage = "judgment"
    /\ calls' = Append(calls, "groq")
    /\ ret' = call_api(arg.groq)
    /\ stage' = "groq_called"
    /\ UNCHANGED <<df, high_volatility_companies, ci, ri, results, TOP_N_COMPANIES,
                   target, peer_context, summary, arg, pc, files>>

\* lines 29-33: if response: return parse_llm_response(response)
ReturnGroq ==
    /\ stage = "groq_called"
    /\ Truthy(ret)
    /\ summary' = ret
    /\ ret' = parse_llm_response(ret)
    /\ stage' = "returned"
    /\ UNCHANGED <<df, high_volatility_companies, ci, ri, calls, results,
                   TOP_N_COMPANIES, target, peer_context, arg, pc, files>>

\* line 36: response = call_gemini_api(prompt)
CallGeminiApi ==
    /\ stage = "groq_called"
    /\ ~Truthy(ret)
    /\ calls' = Append(calls, "gemini")
    /\ ret' = call_api(arg.gemini)
    /\ stage' = "gemini_called"
    /\ UNCHANGED <<df, high_volatility_companies, ci, ri, results, TOP_N_COMPANIES,
                   target, peer_context, summary, arg, pc, files>>

\* lines 37-41: if response: return parse_llm_response(response)
ReturnGemini ==
    /\ stage = "gemini_called"
    /\ Truthy(ret)
    /\ summary' = ret
    /\ ret' = parse_llm_response(ret)
    /\ stage' = "returned"
    /\ UNCHANGED <<df, high_volatility_companies, ci, ri, calls, results,
                   TOP_N_COMPANIES, target, peer_context, arg, pc, files>>

\* line 47: return parse_llm_response(_get_mock_response(...))
ReturnMock ==
    /\ stage = "gemini_called"
    /\ ~Truthy(ret)
    /\ calls' = Append(calls, "mock")
    /\ summary' = get_mock_response(arg.mock)
    /\ ret' = parse_llm_response(get_mock_response(arg.mock))
    /\ stage' = "returned"
    /\ UNCHANGED <<df, high_volatility_companies, ci, ri, results, TOP_N_COMPANIES,
                   target, peer_context, arg, pc, files>>

NextJudgment ==
    \/ CallGroqApi
    \/ ReturnGroq
    \/ CallGeminiApi
    \/ ReturnGemini
    \/ ReturnMock

\* what a provider does when called: it answers with a text, has nothing to
\* answer, or fails inside the call
Outcomes ==
    {[kind |-> "text", response |-> r] : r \in Responses}
        \cup {[kind |-> "nothing", response |-> None],
              [kind |-> "fails", response |-> None]}

MockYears == {2019, 2023}
MockInputs ==
    [peer_count : {0, 2}, median_revenue : {1200},
     has_high_volatility : BOOLEAN, has_negative_growth : BOOLEAN,
     current_year_data : {"31-Dec: 1,000 (+60%)"}, year : MockYears]

InitJudgment ==
    /\ stage = "judgment"
    /\ df = <<>>
    /\ TOP_N_COMPANIES = DefaultTopN
    /\ high_volatility_companies = <<>>
    /\ ci = 0
    /\ ri = 0
    /\ calls = <<>>
    /\ results = <<>>
    /\ target = <<>>
    /\ peer_context = <<>>
    /\ summary = None
    /\ arg \in [groq : Outcomes, gemini : Outcomes, mock : MockInputs]
    /\ ret = None
    /\ pc = "-"
    /\ files = {}

SpecJudgment == InitJudgment /\ [][NextJudgment]_vars

(***************************************************************************)
(* Properties of run_rule_based_checks                                     *)
(***************************************************************************)
Rows == 1..Len(df)
Checked == stage = "checked"

\* |yoy_change| against one half, read off the cell itself
AboveHalf(v) == v.tag = "inf" \/ (v.tag = "num" /\ 2 * Abs(v.num) > Abs(v.den))
ExactlyHalf(v) == v.tag = "num" /\ 2 * Abs(v.num) = Abs(v.den)

\* C1: after run_rule_based_checks a record is flagged volatile if and only
\* if its yoy_change is present and strictly greater than 0.5 in absolute
\* value; a change of exactly 0.5, or an absent change, is never flagged.
C1_VolatileIffAboveThreshold ==
    Checked =>
        \A k \in Rows :
            /\ df[k].yoy_volatility_flag \in BOOLEAN
            /\ df[k].yoy_volatility_flag <=> AboveHalf(df[k].yoy_change)
            /\ (isna(df[k].yoy_change) \/ ExactlyHalf(df[k].yoy_change))
                    => ~df[k].yoy_volatility_flag

\* a checked frame holding a change of exactly +0.5, one of exactly -0.5 or
\* an absent one, and a flagged record
C1_Witness ==
    /\ Checked
    /\ \E k \in Rows : ExactlyHalf(df[k].yoy_change) /\ ~df[k].yoy_volatility_flag
    /\ \E k \in Rows : isna(df[k].yoy_change)
    /\ \E k \in Rows : df[k].yoy_volatility_flag

EarliestOfEntity(k) ==
    \A j \in Rows : df[j].company_name = df[k].company_name => df[k].year <= df[j].year

\* C2: after run_rule_based_checks every record that carries the earliest
\* year of its entity has an absent yoy_change, duplicate (entity, year)
\* keys allowed.
C2_EarliestYearAbsent ==
    Checked => \A k \in Rows : EarliestOfEntity(k) => isna(df[k].yoy_change)

(***************************************************************************)
(* Properties of run_llm_analysis                                          *)
(***************************************************************************)
Selecting == stage \in {"llm", "llm_done"}
Selected == {high_volatility_companies[k] : k \in 1..Len(high_volatility_companies)}
VolatileEntities == {df[k].company_name : k \in {j \in Rows : df[j].yoy_volatility_flag}}
RowsOf(name) == {k \in Rows : df[k].company_name = name}

\* entity a's largest |yoy_change| is at least entity b's
MaxAtLeast(a, b) ==
    \E i \in RowsOf(a) : notna(df[i].yoy_change) /\
        \A j \in RowsOf(b) : notna(df[j].yoy_change) => ~AbsGt(df[j].yoy_change, df[i].yoy_change)

\* C3: run_llm_analysis never selects more than N entities; with at least N
\* volatile entities it selects exactly N, with fewer it selects them all;
\* and no entity left out has a larger maximum |yoy_change| than one taken.
C3_TopNSelected ==
    Selecting =>
        /\ Len(high_volatility_companies) <= TOP_N_COMPANIES
        /\ Cardinality(Selected) = Len(high_volatility_companies)
        /\ Selected \subseteq VolatileEntities
        /\ Cardinality(VolatileEntities) >= TOP_N_COMPANIES
                => Len(high_volatility_companies) = TOP_N_COMPANIES
        /\ Cardinality(VolatileEntities) < TOP_N_COMPANIES => Selected = VolatileEntities
        /\ \A s \in Selected, u \in VolatileEntities \ Selected : MaxAtLeast(s, u)

\* more volatile entities than N, of different magnitudes, and N selected
C3_Witness ==
    /\ Selecting
    /\ Cardinality(VolatileEntities) > TOP_N_COMPANIES
    /\ Len(high_volatility_companies) = TOP_N_COMPANIES
    /\ \E s \in Selected, u \in VolatileEntities \ Selected : ~MaxAtLeast(u, s)

TiedAtCutOff(s, u) ==
    /\ s \in Selected
    /\ u \in VolatileEntities \ Selected
    /\ MaxAtLeast(s, u)
    /\ MaxAtLeast(u, s)

FirstRowOf(name) == CHOOSE k \in RowsOf(name) : \A j \in RowsOf(name) : k <= j

JudgmentAbsent(row) ==
    /\ row.llm_verdict = PD_NA
    /\ row.llm_explanation = PD_NA
    /\ isna(row.llm_confidence)

CallsFor(k) == {i \in 1..Len(calls) : calls[i].index = df[k].index}

\* C5: every record of an entity that was not selected keeps verdict,
\* explanation and confidence absent, and no judgment call is issued for it.
C5_UnselectedUntouched ==
    Selecting => \A k \in Rows :
        df[k].company_name \notin Selected =>
            /\ JudgmentAbsent(df[k])
            /\ CallsFor(k) = {}
            /\ \A i \in 1..Len(calls) : calls[i].company_name # df[k].company_name

\* the analysis has returned, some entity was judged, and the frame holds
\* both a volatile entity left out and an entity with no volatile record
C5_Witness ==
    /\ stage = "llm_done"
    /\ calls # <<>>
    /\ \E k \in Rows : df[k].company_name \in VolatileEntities \ Selected
    /\ \E k \in Rows : df[k].company_name \notin VolatileEntities

\* C6: once run_llm_analysis has returned, every record of a selected
\* entity, volatile or not, has had exactly one judgment call, and carries
\* the verdict, explanation and confidence that call returned; there are no
\* other calls.
C6_OneCallPerRecord ==
    stage = "llm_done" =>
        /\ \A k \in Rows : df[k].company_name \in Selected =>
              /\ Cardinality(CallsFor(k)) = 1
              /\ \A i \in CallsFor(k) :
                    /\ calls[i].company_name = df[k].company_name
                    /\ calls[i].target_year = df[k].year
                    /\ df[k].llm_verdict = calls[i].llm_result.verdict
                    /\ df[k].llm_explanation = calls[i].llm_result.explanation
                    /\ df[k].llm_confidence = calls[i].llm_result.confidence
        /\ Len(calls) = Cardinality({k \in Rows : df[k].company_name \in Selected})

\* a selected entity with a volatile and a non-volatile record, judged
\* differently
C6_Witness ==
    /\ stage = "llm_done"
    /\ \E k, j \in Rows :
          /\ df[k].company_name = df[j].company_name
          /\ df[k].company_name \in Selected
          /\ df[k].yoy_volatility_flag
          /\ ~df[j].yoy_volatility_flag
          /\ df[k].llm_verdict # df[j].llm_verdict

RowWithIndex(ix) == CHOOSE k \in Rows : df[k].index = ix

\* the entity's records with year <= target year
UpToTarget(c) == {k \in RowsOf(c.company_name) : df[k].year <= c.target_year}
SummaryRows(c) == {RowWithIndex(c.year_data[m]) : m \in 1..Len(c.year_data)}

\* C7: for every judged entity-year the trailing summary is built from the
\* entity's records with year <= target year, restricted to the at most 3
\* most recent by year, the target record among them, in ascending year
\* order, for any row order of the record set.
C7_TrailingWindow ==
    \A i \in 1..Len(calls) :
        LET c == calls[i]
        IN  /\ SummaryRows(c) \subseteq UpToTarget(c)
            /\ Cardinality(SummaryRows(c)) = Len(c.year_data)
            /\ Len(c.year_data) = Min(TrailingWindow, Cardinality(UpToTarget(c)))
            /\ RowWithIndex(c.index) \in SummaryRows(c)
            /\ \A a \in SummaryRows(c), b \in UpToTarget(c) \ SummaryRows(c) :
                  df[b].year <= df[a].year
            /\ \A m, n \in 1..Len(c.year_data) :
                  m < n => df[RowWithIndex(c.year_data[m])].year
                              <= df[RowWithIndex(c.year_data[n])].year

(***************************************************************************)
(* Properties of summarize_company_data                                    *)
(***************************************************************************)
\* C8: each entry of the trailing summary is "{year}: {revenue} ({change})",
\* labelled with the record's year, the revenue with thousands separators
\* or MISSING, the change a signed percentage or MISSING, joined by "; ".
C8_EntryLabelledByYear ==
    stage = "summary" =>
        /\ \A k \in 1..Len(summary.rows) :
              summary.parts[k] =
                  ToString(summary.rows[k].year) \o ": " \o revenue_str(summary.rows[k])
                      \o " (" \o yoy_str(summary.rows[k]) \o ")"
        /\ summary.text = JoinParts(summary.parts)

(***************************************************************************)
(* Properties of get_peer_context                                          *)
(***************************************************************************)
Answered == stage = "peer_context"
TargetRow == df[target.row]

\* the peers as the claim words them
Peers ==
    {k \in Rows :
        /\ df[k].country = TargetRow.country
        /\ df[k].industry_code = TargetRow.industry_code
        /\ df[k].provider_id # TargetRow.provider_id
        /\ df[k].year = target.year}
UsablePeers == {k \in Peers : df[k].revenue.tag = "num"}

HasStatistics(ctx) ==
    {"median_revenue", "mean_revenue", "q25_revenue", "q75_revenue"} \subseteq DOMAIN ctx
HasNoStatistics(ctx) ==
    {"median_revenue", "mean_revenue", "q25_revenue", "q75_revenue"} \cap DOMAIN ctx = {}

\* C9: statistics are returned only when a peer has usable revenue; with no
\* peer the result is peer_count = 0 and a 'no peers' message; with peers
\* but no usable revenue a different 'no peer revenue' message; neither
\* carries a median, and the three results are told apart.
C9_PeerStates ==
    Answered =>
        /\ HasStatistics(peer_context) <=> UsablePeers # {}
        /\ HasStatistics(peer_context) \/ HasNoStatistics(peer_context)
        /\ HasStatistics(peer_context) => "message" \notin DOMAIN peer_context
        /\ Peers = {} =>
              /\ HasNoStatistics(peer_context)
              /\ peer_context.peer_count = 0
              /\ peer_context.message = "No peers found for " \o ToString(target.year)
        /\ (Peers # {} /\ UsablePeers = {}) =>
              /\ HasNoStatistics(peer_context)
              /\ peer_context.peer_count > 0
              /\ peer_context.message = "No peer revenue data for " \o ToString(target.year)

\* peers in the target year, every one of them with absent or 'N/A' revenue
C9_Witness ==
    /\ Answered
    /\ Cardinality(Peers) >= 2
    /\ UsablePeers = {}
    /\ \E k, j \in Peers : isna(df[k].revenue) /\ df[j].revenue = NA_STR

\* the sum and the count of the usable peer revenues, row by row
UsableSum ==
    LET S[k \in 0..Len(df)] ==
            IF k = 0 THEN 0
            ELSE S[k - 1] + (IF k \in UsablePeers THEN df[k].revenue.num ELSE 0)
    IN  S[Len(df)]

Below(m) == {k \in UsablePeers : RatLt(df[k].revenue, m)}
Above(m) == {k \in UsablePeers : RatLt(m, df[k].revenue)}

\* C10: the statistics are those of exactly the revenues of the records of
\* the same country and industry, another entity, the target year and a
\* present revenue: the mean is their sum over their count, the median
\* splits them in halves, and the quartiles lie on either side of the
\* median between their smallest and their largest.
C10_StatisticsOverPeers ==
    (Answered /\ HasStatistics(peer_context)) =>
        LET n == Cardinality(UsablePeers)
            ctx == peer_context
        IN  /\ n > 0
            /\ ctx.mean_revenue.num * n = UsableSum * ctx.mean_revenue.den
            /\ 2 * Cardinality(Below(ctx.median_revenue)) <= n
            /\ 2 * Cardinality(Above(ctx.median_revenue)) <= n
            /\ ~RatLt(ctx.median_revenue, ctx.q25_revenue)
            /\ ~RatLt(ctx.q75_revenue, ctx.median_revenue)
            /\ \E lo, hi \in UsablePeers :
                  /\ ~RatLt(ctx.q25_revenue, df[lo].revenue)
                  /\ ~RatLt(df[hi].revenue, ctx.q75_revenue)
                  /\ \A k \in UsablePeers :
                        /\ ~RatLt(df[k].revenue, df[lo].revenue)
                        /\ ~RatLt(df[hi].revenue, df[k].revenue)
            /\ ctx.analysis_year = target.year

\* statistics over a peer's revenue, beside a record of the same cohort and
\* another entity that differs from the peer in year and in revenue
C10_Witness ==
    /\ Answered
    /\ HasStatistics(peer_context)
    /\ \E p \in UsablePeers, k \in Rows \ Peers :
          /\ df[k].revenue.tag = "num"
          /\ df[k].revenue # df[p].revenue
          /\ df[k].provider_id # TargetRow.provider_id
          /\ df[k].country = TargetRow.country
          /\ df[k].industry_code = TargetRow.industry_code
          /\ df[k].year # target.year

(***************************************************************************)
(* Properties of correct_fiscal_period_end                                 *)
(***************************************************************************)
Values == 1..Len(arg)
Corrected == stage = "date_corrected"
Recorrected == stage = "date_recorrected"

\* the values the claim calls absent, and those no date can be read from
AbsentDates == {NaNText, NaT, NoneValue}
NotADate == UnparseableDates \cup AbsentDates

\* C11: date correction is idempotent: applied to a value it returned, it
\* returns that value again and reports it as not corrected.
C11_CorrectionIdempotent ==
    Recorrected => \A k \in Values : ret[k] = <<arg[k], FALSE>>

\* C12: a value is reported as corrected only when what is returned is a
\* token of the DD-MMM form that differs from the input; an input already of
\* that form, or one no date can be read from (an absent value included),
\* comes back unchanged and not corrected, so the corrected flags count
\* exactly the rewritten values.
C12_CorrectedOnlyWhenRewritten ==
    Corrected =>
        /\ \A k \in Values :
              /\ ret[k][2] => (MatchesDatePattern(ret[k][1]) /\ ret[k][1] # arg[k])
              /\ (MatchesDatePattern(arg[k]) \/ arg[k] \in NotADate) =>
                    ret[k] = <<arg[k], FALSE>>
        /\ Cardinality({k \in Values : ret[k][2]})
              = Cardinality({k \in Values : ret[k][1] # arg[k]})

(***************************************************************************)
(* Properties of infer_missing_revenue_unit                                *)
(***************************************************************************)
Inferred == stage = "unit_inferred"
UnitPresent(u) == u \notin {NaNText, NoneValue, ""}

\* C13: a present, non-empty unit is kept; an absent or empty one becomes
\* 'GBP' exactly when the country is 'United Kingdom' and otherwise stays
\* as it was.
C13_UnitInference ==
    Inferred => \A k \in Values :
        LET u == arg[k].revenue_unit
        IN  /\ UnitPresent(u) => ret[k] = u
            /\ ~UnitPresent(u) =>
                  /\ (arg[k].country = "United Kingdom") => ret[k] = "GBP"
                  /\ (arg[k].country # "United Kingdom") => ret[k] = u

\* an empty unit inferred for the United Kingdom beside an absent one left
\* absent for another country
C13_Witness ==
    /\ Inferred
    /\ \E j, k \in Values :
          /\ arg[j].revenue_unit = "" /\ arg[j].country = "United Kingdom"
          /\ ret[j] = "GBP"
          /\ arg[k].revenue_unit = NaNText /\ arg[k].country # "United Kingdom"
          /\ ret[k] = NaNText

(***************************************************************************)
(* Properties of the duplicate set                                         *)
(***************************************************************************)
\* the records of the checked set whose (name, year) key another record has
SharedKey == {k \in Rows : \E j \in Rows \ {k} :
                 /\ df[j].company_name = df[k].company_name
                 /\ df[j].year = df[k].year}
Reported == {ret.duplicates[k].index : k \in 1..Len(ret.duplicates)}

\* C14: the duplicate set holds exactly the records whose (entity name,
\* year) key more than one record has, each once: every member of such a
\* group, and no record whose key is unique.
C14_DuplicatesAreSharedKeys ==
    Checked =>
        /\ Reported = {df[k].index : k \in SharedKey}
        /\ Len(ret.duplicates) = Cardinality(SharedKey)

\* two records of one entity and year under different spellings are both
\* reported, a third record of a key of its own is not
C14_Witness ==
    /\ Checked
    /\ \E j, k \in SharedKey :
          /\ df[j].company_name_original # df[k].company_name_original
          /\ df[j].company_name = df[k].company_name
          /\ {df[j].index, df[k].index} \subseteq Reported
    /\ \E k \in Rows \ SharedKey : df[k].index \notin Reported

(***************************************************************************)
(* Properties of the record set as a whole                                 *)
(***************************************************************************)
\* a record as it was ingested: its name as given, its year, its revenue
Ingested(row) ==
    <<IF "company_name_original" \in DOMAIN row
      THEN row.company_name_original ELSE row.company_name,
      row.year, row.revenue>>
Copies(rows, key) == Cardinality({k \in 1..Len(rows) : Ingested(rows[k]) = key})
SameRecords(a, b) ==
    /\ Len(a) = Len(b)
    /\ \A k \in 1..Len(a) : Copies(a, Ingested(a[k])) = Copies(b, Ingested(a[k]))
Loaded == pc \in {"checks", "snapshot", "quality_report", "llm_analysis",
                  "llm_report", "save", "done"}

\* C15: no stage drops or adds a record: after the rule checks, throughout
\* the judgment stage and in the spreadsheet written at the end, the record
\* set holds the ingested records, each as many times as it was ingested.
C15_RecordsPreserved ==
    /\ Loaded => SameRecords(df, Content("RAW_DATA_PATH"))
    /\ pc = "done" =>
          SameRecords(Content("FINAL_OUTPUT_PATH"), Content("RAW_DATA_PATH"))

\* the spreadsheet holds two records of one (entity, year) key, both judged,
\* and a record that was not judged
C15_Witness ==
    /\ pc = "done"
    /\ LET out == Content("FINAL_OUTPUT_PATH")
       IN  /\ \E j, k \in 1..Len(out) :
                 /\ j # k
                 /\ out[j].company_name = out[k].company_name
                 /\ out[j].year = out[k].year
                 /\ out[j].llm_verdict # NA_MARKER
                 /\ out[k].llm_verdict # NA_MARKER
           /\ \E k \in 1..Len(out) : out[k].llm_verdict = NA_MARKER

\* the raw record a checked record comes from
RawOf(row) == arg[row.index + 1]
\* the marker turned back into the absent value, for a text cell
MarkerToAbsent(v) == IF v = NA_MARKER THEN NaNText ELSE v
NoAbsentValue(row) ==
    /\ notna(row.revenue)
    /\ row.revenue_unit # NaNText
    /\ row.fiscal_period_end # NaNText

\* C16: standardizing absent values of revenue, revenue_unit and
\* fiscal_period_end to the marker and turning the marker back into the
\* absent value leaves a record that had none of them absent as it was.
C16_MarkerRoundTrip ==
    Checked => \A k \in Rows :
        NoAbsentValue(RawOf(df[k])) =>
            /\ ToNumeric(ReplaceNA(df[k].revenue)) = RawOf(df[k]).revenue
            /\ MarkerToAbsent(df[k].revenue_unit) = RawOf(df[k]).revenue_unit
            /\ MarkerToAbsent(df[k].fiscal_period_end) = RawOf(df[k]).fiscal_period_end
            /\ df[k].revenue = RawOf(df[k]).revenue
            /\ df[k].year = RawOf(df[k]).year

\* a record with a zero revenue and nothing absent beside a record whose
\* absent revenue was replaced by the marker
C16_Witness ==
    /\ Checked
    /\ \E j, k \in Rows :
          /\ NoAbsentValue(RawOf(df[j]))
          /\ df[j].revenue = Num(0, 1)
          /\ isna(RawOf(df[k]).revenue)
          /\ df[k].revenue = NA_STR

(***************************************************************************)
(* Properties of main                                                      *)
(***************************************************************************)
\* the input cannot be loaded: no workbook at the input path
LoadFails == ~\E f \in files : f.path = "RAW_DATA_PATH" /\ f.workbook

\* C20: when loading the input fails, main raises the error of the load
\* and nothing else happens: no rule check, no snapshot, no report, no
\* judgment call, no spreadsheet.
C20_LoadFailurePropagates ==
    LoadFails =>
        /\ pc \in {"load", "raised"}
        /\ pc = "raised" =>
              ret.error = IF files = {} THEN "FileNotFoundError" ELSE "BadZipFile"
        /\ stage = "start"
        /\ df = <<>>
        /\ calls = <<>>
        /\ \A f \in files : f.path = "RAW_DATA_PATH"

\* main has raised the error of a missing input file
C20_Witness ==
    /\ pc = "raised"
    /\ files = {}
    /\ ret.error = "FileNotFoundError"

(***************************************************************************)
(* Properties of get_llm_judgment                                          *)
(***************************************************************************)
Returned == stage = "returned"
\* what a provider hands back is no response: nothing, a failure, or ""
NoResponse(outcome) == outcome.kind # "text" \/ outcome.response.text = ""
\* the response that was parsed is a JSON object with the three fields
JsonVerdict(response) ==
    response.json.tag = "object" /\ AllFields \subseteq response.json.fields
InUnitInterval(c) == c.tag = "num" /\ c.num >= 0 /\ c.num <= c.den /\ c.den > 0

C19_KeywordFallback ==
    (Returned /\ ~JsonVerdict(summary)) =>
        LET bad == summary.keywords \cap ImplausibleWords # {}
            good == summary.keywords \cap PlausibleWords # {}
        IN  /\ bad => ret.verdict = "implausible"
            /\ (~bad /\ good) => ret.verdict = "plausible"
            /\ (~bad /\ ~good) => ret.verdict = "uncertain"
            /\ (bad \/ good) => RatEq(ret.confidence, Num(7, 10))
            /\ (~bad /\ ~good) => RatEq(ret.confidence, Num(5, 10))
            /\ ret.explanation = "AI response analysis: " \o First150(summary.text) \o "..."

\* a free text with a keyword of either list came back 'implausible'
C19_Witness ==
    /\ Returned
    /\ summary.json.tag = "JSONDecodeError"
    /\ summary.keywords \cap ImplausibleWords # {}
    /\ (summary.keywords \cap PlausibleWords) \ {"plausible", "valid"} # {}
    /\ ret.verdict = "implausible"
    /\ RatEq(ret.confidence, Num(7, 10))

(***************************************************************************)
(* Properties of main: the order of its stages                             *)
(***************************************************************************)
\* the statements of main, in the order of the source
MainStatements == <<"load", "checks", "snapshot", "quality_report",
                    "llm_analysis", "llm_report", "save", "done">>
\* main is past the statement s
Past(s) ==
    \E j, k \in 1..Len(MainStatements) :
        j < k /\ MainStatements[j] = s /\ MainStatements[k] = pc
OutputPaths == {"SNAPSHOT_PATH", "RULE_BASED_REPORT_PATH", "LLM_REPORT_PATH",
                "FINAL_OUTPUT_PATH"}

\* what each stage leaves behind is there exactly when main is past it
StageEffects ==
    /\ Past("load") <=> stage # "start"
    /\ Past("checks") <=> stage \in {"checked", "llm", "llm_done"}
    /\ Past("snapshot") <=> Exists("SNAPSHOT_PATH")
    /\ Past("quality_report") <=> Exists("RULE_BASED_REPORT_PATH")
    /\ (stage \in {"llm", "llm_done"} \/ calls # <<>>) => Past("quality_report")
    /\ Past("llm_analysis") <=> summary # <<>>
    /\ Past("llm_analysis") => stage = "llm_done"
    /\ Past("llm_report") <=> Exists("LLM_REPORT_PATH")
    /\ Past("save") <=> Exists("FINAL_OUTPUT_PATH")
    \* the snapshot is the record set the rule checks returned, no judgment
    \* on it
    /\ Exists("SNAPSHOT_PATH") =>
          Content("SNAPSHOT_PATH") = run_rule_based_checks(Content("RAW_DATA_PATH"))

\* a step of main: a judgment call within run_llm_analysis, or the move to
\* the next statement; a file is written once, and only the file of a stage
StageStep ==
    /\ pc' # pc =>
          \/ pc = "load" /\ pc' = "raised"
          \/ \E k \in 1..(Len(MainStatements) - 1) :
                pc = MainStatements[k] /\ pc' = MainStatements[k + 1]
    /\ pc' = pc =>
          /\ pc = "llm_analysis"
          /\ files' = files
          /\ calls' # calls \/ (stage = "checked" /\ stage' # "checked")
    /\ files' # files =>
          \E p \in OutputPaths :
              /\ ~Exists(p)
              /\ \E f \in files' : f.path = p /\ files' = files \cup {f}

\* C21: in a successful run of main the stages run once each and in the
\* order load, rule checks, snapshot, quality report, judgment, final
\* standardization, judgment report, spreadsheet; the snapshot is written
\* after the rule checks and before any judgment call, and no stage starts
\* before the one before it has finished.
C21_StagesInOrder == []StageEffects /\ [][StageStep]_vars

\* main has returned after judgment calls, all four outputs written
C21_Witness ==
    /\ pc = "done"
    /\ Len(calls) >= 2
    /\ \A p \in OutputPaths : Exists(p)
    /\ Content("SNAPSHOT_PATH") # <<>>

(***************************************************************************)
(* Properties of load_raw_data followed by run_rule_based_checks           *)
(***************************************************************************)
\* C22: whatever legacy columns the input lacks, load_raw_data followed by
\* run_rule_based_checks completes without raising, and the columns that
\* were loaded are in the record set it returns.
C22_MissingColumnsNotFatal ==
    /\ stage # "raised"
    /\ Checked => \A k \in Rows : DOMAIN arg[1] \subseteq DOMAIN df[k]

\* with the four indexed columns alone the checks do complete
OnlyRequiredColumnsChecked ==
    /\ Checked
    /\ DOMAIN arg[1] = {"index", "fiscal_period_end", "company_name", "year", "revenue"}

(***************************************************************************)
(* Properties of save_to_excel                                             *)
(***************************************************************************)
Saved == pc = "done"
\* a record that received a judgment: it carries a verdict
Judged(row) == row.llm_verdict # NA_MARKER

\* C23: in the spreadsheet every judged record comes before every record
\* that was not judged, and within either group the records are ordered by
\* entity name ascending and, for equal names, by year descending.
C23_JudgedFirstThenNameYear ==
    Saved =>
        LET out == Content("FINAL_OUTPUT_PATH")
        IN  /\ Len(out) = Len(df)
            /\ \A i, j \in 1..Len(out) :
                  i < j =>
                     /\ Judged(out[j]) => Judged(out[i])
                     /\ (Judged(out[i]) <=> Judged(out[j])) =>
                           /\ NameRank(out[i].company_name) <= NameRank(out[j].company_name)
                           /\ out[i].company_name = out[j].company_name =>
                                 out[i].year >= out[j].year

\* two judged records of one entity, the older one first in the input, come
\* out newest first, ahead of an unjudged record that came first in the
\* input and sorts first by name
C23_Witness ==
    /\ Saved
    /\ Len(df) = 3
    /\ ~Judged(df[1]) /\ df[1].company_name = "A"
    /\ Judged(df[2]) /\ Judged(df[3])
    /\ df[2].company_name = "B" /\ df[3].company_name = "B"
    /\ df[2].year < df[3].year
    /\ LET out == Content("FINAL_OUTPUT_PATH")
       IN  /\ out[1].year = df[3].year /\ Judged(out[1])
           /\ out[2].year = df[2].year /\ Judged(out[2])
           /\ ~Judged(out[3])

(***************************************************************************)
(* Properties of the year-over-year transform                              *)
(***************************************************************************)
\* the record of entity A for a year, in the checked record set
RecordOfA(y) == CHOOSE k \in Rows : df[k].company_name = "A" /\ df[k].year = y
ExampleChanges ==
    /\ isna(df[RecordOfA(2021)].yoy_change)
    /\ df[RecordOfA(2022)].yoy_change.tag = "num"
    /\ RatEq(df[RecordOfA(2022)].yoy_change, Num(1, 9))
    /\ df[RecordOfA(2023)].yoy_change.tag = "num"
    /\ RatEq(df[RecordOfA(2023)].yoy_change, VOLATILITY_THRESHOLD)

\* C24 as stated: the changes of A are [absent, 1/9, 0.5] and the record of
\* 2023 is the only record of A flagged volatile.
C24_Only2023Volatile ==
    Checked =>
        /\ ExampleChanges
        /\ \A k \in Rows : df[k].company_name = "A" =>
              (df[k].yoy_volatility_flag <=> df[k].year = 2023)

\* C24 amended: the changes of A are [absent, 1/9, 0.5] and no record of A
\* is flagged volatile, the change of 2023 being exactly the threshold.
C24_NoRecordOfAVolatile ==
    Checked =>
        /\ ExampleChanges
        /\ \A k \in Rows : df[k].company_name = "A" => ~df[k].yoy_volatility_flag

\* the records of A came newest first, and a record of B whose revenue went
\* from 50 to 200 is flagged beside them
C24_Witness ==
    /\ Checked
    /\ arg[1].year = 2023 /\ arg[2].year = 2022 /\ arg[3].year = 2021
    /\ RatEq(df[RecordOfA(2023)].yoy_change, Num(1, 2))
    /\ ~df[RecordOfA(2023)].yoy_volatility_flag
    /\ \E k \in Rows : df[k].company_name = "B" /\ df[k].yoy_volatility_flag

\* the records of the entity of record k that precede it in the record set
EarlierOfEntity(k) == {j \in 1..(k - 1) : df[j].company_name = df[k].company_name}
\* the one immediately before it
PreviousOfEntity(k) == CHOOSE j \in EarlierOfEntity(k) : \A i \in EarlierOfEntity(k) : i <= j
\* the record set is in (entity_name, year) order
InNameYearOrder == \A i, j \in Rows : i < j => ~NameYearLt(df[j], df[i])

\* C25: a record that is not the first of its entity in (entity_name, year)
\* order has the change (revenue - previous) / previous against the record
\* of the entity right before it, whatever the gap between the two years;
\* the change is absent when either revenue is absent.  (After a zero
\* revenue the quotient is no number: infinite, or absent for 0 / 0.)
C25_ChangeAgainstPreviousRecord ==
    Checked =>
        /\ InNameYearOrder
        /\ \A k \in Rows :
              EarlierOfEntity(k) # {} =>
                 LET cur == RawOf(df[k]).revenue
                     prev == RawOf(df[PreviousOfEntity(k)]).revenue
                     yoy == df[k].yoy_change
                 IN  /\ (isna(cur) \/ isna(prev)) => isna(yoy)
                     /\ (notna(cur) /\ notna(prev) /\ prev.num # 0) =>
                           /\ yoy.tag = "num"
                           /\ RatEq(RatMul(yoy, prev.num, prev.den), RatSub(cur, prev))
                     /\ (notna(cur) /\ notna(prev) /\ prev.num = 0) => yoy.tag # "num"

\* an entity with records of 2021 and 2023 only: the change of 2023 is taken
\* against 2021; beside it a record whose previous revenue is absent
C25_Witness ==
    /\ Checked
    /\ \E k \in Rows :
          /\ EarlierOfEntity(k) # {}
          /\ df[k].year = 2023
          /\ df[PreviousOfEntity(k)].year = 2021
          /\ RatEq(df[k].yoy_change, Num(1, 2))
          /\ df[k].yoy_change.tag = "num"
    /\ \E k \in Rows :
          /\ EarlierOfEntity(k) # {}
          /\ isna(RawOf(df[PreviousOfEntity(k)]).revenue)
          /\ notna(RawOf(df[k]).revenue)
          /\ isna(df[k].yoy_change)

(***************************************************************************)
(* Properties of run_llm_analysis: the order of the judgment calls         *)
(***************************************************************************)
\* every call made so far has its result on its record
ResultsWritten ==
    \A i \in 1..Len(calls) :
        \E k \in Rows :
            /\ df[k].index = calls[i].index
            /\ df[k].llm_verdict = calls[i].llm_result.verdict
            /\ df[k].llm_explanation = calls[i].llm_result.explanation
            /\ df[k].llm_confidence = calls[i].llm_result.confidence
\* the calls go entity by entity, the entity with the larger maximum first
EntitiesInRankOrder ==
    \A i, j \in 1..Len(calls) :
        (i < j /\ calls[i].company_name # calls[j].company_name) =>
            /\ MaxAtLeast(calls[i].company_name, calls[j].company_name)
            /\ \A m \in i..j : calls[m].company_name = calls[j].company_name =>
                  \A n \in m..j : calls[n].company_name = calls[j].company_name
\* within an entity the calls go by ascending year
YearsAscending ==
    \A i, j \in 1..Len(calls) :
        (i < j /\ calls[i].company_name = calls[j].company_name) =>
            calls[i].target_year <= calls[j].target_year

\* C26: the judgment calls are issued one after another, each result on its
\* record before the next call; entity by entity in descending order of the
\* per-entity maximum absolute change; within an entity in ascending year
\* order of its records, whatever the row order of the record set.
C26_CallsInOrder ==
    Selecting => (ResultsWritten /\ EntitiesInRankOrder /\ YearsAscending)

(***************************************************************************)
(* Properties of run_llm_analysis: the judgment fields of a record         *)
(***************************************************************************)
\* pd.isna of a cell of a judgment text column
AbsentText(v) == v \in {PD_NA, NoneValue, NaNText}
AllThreeAbsent(row) ==
    /\ AbsentText(row.llm_verdict)
    /\ AbsentText(row.llm_explanation)
    /\ isna(row.llm_confidence)
AllThreePresent(row) ==
    /\ row.llm_verdict \in Verdicts
    /\ ~AbsentText(row.llm_explanation)
    /\ InUnitInterval(row.llm_confidence)
\* get_llm_judgment returns a result whose explanation is null
NullExplanationReturned ==
    /\ Returned
    /\ ret.verdict \in Verdicts
    /\ ret.explanation = NoneValue
    /\ InUnitInterval(ret.confidence)

\* C27: after run_llm_analysis every record has its three judgment fields
\* all absent, or all present with a verdict of the closed set and a
\* confidence within [0, 1]; none has only some of them.
C27_AllOrNothing ==
    stage = "llm_done" =>
        \A k \in Rows : AllThreeAbsent(df[k]) \/ AllThreePresent(df[k])

(***************************************************************************)
(* Properties of get_peer_context: the peer count                          *)
(***************************************************************************)
PeerEntities == {df[k].provider_id : k \in Peers}
\* the statistics result counts a peer entity with several records once
StatisticsCountDistinct ==
    (Answered /\ HasStatistics(peer_context)) =>
        peer_context.peer_count = Cardinality(PeerEntities)
SeveralRecordsOfAPeerCounted ==
    /\ Answered
    /\ HasStatistics(peer_context)
    /\ Cardinality(Peers) > Cardinality(PeerEntities)

\* C28: a peer_count reported by get_peer_context, in the statistics result
\* and in the 'no peer revenue' result alike, is the number of distinct peer
\* entity ids among the matching peer records.
C28_PeerCountDistinct ==
    Answered => peer_context.peer_count = Cardinality(PeerEntities)

(***************************************************************************)
(* Properties of run_llm_analysis: the results mapping                     *)
(***************************************************************************)
\* the records a judgment call was issued for
JudgedRecords == {k \in Rows : CallsFor(k) # {}}
KeyOf(k) == YearKey(df[k].company_name, df[k].year)
EntryOfRecord(k) ==
    /\ KeyOf(k) \in DOMAIN results
    /\ results[KeyOf(k)].verdict = df[k].llm_verdict
    /\ results[KeyOf(k)].explanation = df[k].llm_explanation
    /\ results[KeyOf(k)].confidence = df[k].llm_confidence
\* no two records of the record set share entity name and year
EntityYearsDistinct == \A k, j \in Rows : KeyOf(k) = KeyOf(j) => k = j
\* with distinct entity-years the mapping has one entry per judged record
OneEntryPerEntityYear ==
    (stage = "llm_done" /\ EntityYearsDistinct) =>
        /\ Cardinality(DOMAIN results) = Cardinality(JudgedRecords)
        /\ \A k \in JudgedRecords : EntryOfRecord(k)

\* C29: the results mapping returned by run_llm_analysis has exactly one
\* entry per record that received a judgment, and each entry equals the
\* verdict, explanation and confidence written onto that record, also when
\* a selected entity has several records with the same year.
C29_OneEntryPerJudgedRecord ==
    stage = "llm_done" =>
        /\ Cardinality(DOMAIN results) = Cardinality(JudgedRecords)
        /\ \A k \in JudgedRecords : EntryOfRecord(k)

====
